---- MODULE Spec2Model ----
(***************************************************************************)
(* Model of the chat client of chunkr-chat-app: the streaming response     *)
(* decoder (handleStreamingResponse), the send flow that drives it         *)
(* (handleSendMessage in the PDFChat component) and the global response    *)
(* store the two share; then the citation markers of a message, the        *)
(* bounding boxes drawn over the pages, the PDF viewer with its delayed    *)
(* scroll and width, and the home page with the uploader and the API keys. *)
(*                                                                         *)
(* Text is modelled as a sequence of symbols.  A symbol is a TLA+ string   *)
(* that stands for exactly the characters it shows: punctuation is one     *)
(* character per symbol, a run of letters may be one symbol ("metadata").  *)
(* Two conventions keep a symbol sequence faithful to its characters:      *)
(*   - the key and the frame type `response` are always written as the two *)
(*     symbols "respon","se", so that a text can be cut inside the word;   *)
(*   - the character after a backslash is always a symbol of its own.      *)
(***************************************************************************)
EXTENDS Integers, Sequences, FiniteSets, TLC

(***************************************************************************)
(* Symbols                                                                 *)
(***************************************************************************)
LB == "{"
RB == "}"
LK == "["
RK == "]"
CL == ":"
CM == ","
Q  == "\""
BS == "\\"
SP == " "
LF == "\n"

\* JSON insignificant whitespace, which is also what the regex class \s and
\* String.prototype.trim see among the symbols of the model.
Whitespace == {SP, LF, "\t", "\r"}

\* The characters the regex atom `.` does not match.
LineTerminators == {LF, "\r"}

Digits == {"0", "1", "2"}

(***************************************************************************)
(* JavaScript values, in one record shape so that any two compare.         *)
(*   t    : "undefined" "null" "true" "false" "number" "string" "array"    *)
(*          "object"                                                       *)
(*   s    : the symbols of a string, or the digits of a number             *)
(*   kids : the elements of an array, or the member values of an object    *)
(*   keys : the member names of an object (each a symbol sequence)         *)
(***************************************************************************)
Mk(t, s, kids, keys) == [t |-> t, s |-> s, kids |-> kids, keys |-> keys]
Undefined == Mk("undefined", <<>>, <<>>, <<>>)
Null      == Mk("null", <<>>, <<>>, <<>>)
True      == Mk("true", <<>>, <<>>, <<>>)
False     == Mk("false", <<>>, <<>>, <<>>)
Num(s)    == Mk("number", s, <<>>, <<>>)
Str(s)    == Mk("string", s, <<>>, <<>>)
Arr(kids) == Mk("array", <<>>, kids, <<>>)
Obj(keys, kids) == Mk("object", <<>>, kids, keys)

EmptyString == Str(<<>>)
EmptyArray  == Arr(<<>>)

\* ToBoolean: what `if (v)`, `v && ...` and `v || ...` test.
Truthy(v) ==
    CASE v.t \in {"undefined", "null", "false"} -> FALSE
      [] v.t = "string" -> v.s # <<>>
      [] v.t = "number" -> \E i \in 1..Len(v.s) : v.s[i] # "0"
      [] OTHER -> TRUE

\* v[key] for a value that is neither null nor undefined (reading a property
\* of those throws a TypeError, which the callers test for with Throws).
\* JSON.parse keeps the last of several members of one name.
Get(v, key) ==
    IF v.t = "object" /\ \E i \in 1..Len(v.keys) : v.keys[i] = key
    THEN LET last == CHOOSE i \in 1..Len(v.keys) :
                        /\ v.keys[i] = key
                        /\ \A j \in (i+1)..Len(v.keys) : v.keys[j] # key
         IN  v.kids[last]
    ELSE Undefined

Throws(v) == v.t \in {"undefined", "null"}

\* `v.length > 0`: arrays and strings have a length; for any other value the
\* property is an own member or undefined, and undefined > 0 is false.
LengthPositive(v) ==
    CASE v.t = "array"  -> Len(v.kids) > 0
      [] v.t = "string" -> Len(v.s) > 0
      [] v.t = "object" -> LET n == Get(v, <<"length">>)
                           IN  n.t = "number" /\ Truthy(n)
      [] OTHER -> FALSE

\* ToString of JavaScript, as `accumulatedContent += data.content` applies it.
RECURSIVE JSToString(_)
RECURSIVE JoinKids(_, _)
JoinKids(kids, i) ==
    IF i > Len(kids) THEN <<>>
    ELSE (IF i > 1 THEN <<CM>> ELSE <<>>)
         \o (IF kids[i].t \in {"undefined", "null"} THEN <<>> ELSE JSToString(kids[i]))
         \o JoinKids(kids, i + 1)
JSToString(v) ==
    CASE v.t \in {"string", "number"} -> v.s
      [] v.t = "array"  -> JoinKids(v.kids, 1)
      [] v.t = "object" -> <<"[object Object]">>
      [] OTHER -> <<v.t>>

(***************************************************************************)
(* JSON.parse                                                              *)
(***************************************************************************)
Fail == [ok |-> FALSE, pos |-> 0, v |-> Undefined]
Parsed(pos, v) == [ok |-> TRUE, pos |-> pos, v |-> v]

RECURSIVE SkipWs(_, _)
SkipWs(s, i) ==
    IF i <= Len(s) /\ s[i] \in Whitespace THEN SkipWs(s, i + 1) ELSE i

\* The character an escape \X stands for; only these X are escapes.
EscapedBy == [x \in {Q, BS, "/", "n"} |-> IF x = "n" THEN LF ELSE x]

\* The least element of a non-empty set of numbers.
Min(S) == CHOOSE m \in S : \A x \in S : m <= x

\* The backslashes that stand right before s[m], counted back to s[i] at
\* most.  In a string literal that starts at s[i], s[m] is the second half
\* of an escape exactly when that number is odd.
BackslashRun(s, i, m) ==
    CHOOSE k \in 0..(m - i) :
        /\ \A q \in (m - k)..(m - 1) : s[q] = BS
        /\ k = m - i \/ s[m - k - 1] # BS
IsEscaped(s, i, m) == BackslashRun(s, i, m) % 2 = 1

\* The characters that s[lo..hi], part of a string literal that starts at
\* s[i], stands for.
RECURSIVE Decoded(_, _, _, _)
Decoded(s, i, lo, hi) ==
    IF lo > hi THEN <<>>
    ELSE IF lo = hi
         THEN IF IsEscaped(s, i, lo) THEN <<EscapedBy[s[lo]]>>
              ELSE IF s[lo] = BS THEN <<>>
              ELSE <<s[lo]>>
    ELSE LET mid == (lo + hi) \div 2
         IN  Decoded(s, i, lo, mid) \o Decoded(s, i, mid + 1, hi)

\* The rest of a string literal whose opening quote is before s[i]: it ends
\* at the first quote that no backslash escapes, every escape in it must be
\* a known one, and no control character may stand in it unescaped.
ParseChars(s, i) ==
    LET closers == {m \in i..Len(s) : s[m] = Q /\ ~IsEscaped(s, i, m)}
    IN  IF closers = {} THEN Fail
        ELSE LET j == Min(closers)
             IN  IF \A m \in i..(j - 1) :
                        IF IsEscaped(s, i, m) THEN s[m] \in DOMAIN EscapedBy
                        ELSE s[m] \notin {LF, "\t", "\r"}
                 THEN Parsed(j + 1, Str(Decoded(s, i, i, j - 1)))
                 ELSE Fail

RECURSIVE DigitsEnd(_, _)
DigitsEnd(s, i) ==
    IF i <= Len(s) /\ s[i] \in Digits THEN DigitsEnd(s, i + 1) ELSE i

\* The parser proper.  Each step hands what it has read to the next one.
RECURSIVE ParseValue(_, _)
RECURSIVE ValueAt(_, _)
RECURSIVE ParseMembers(_, _, _, _)
RECURSIVE MemberName(_, _, _, _)
RECURSIVE MemberColon(_, _, _, _)
RECURSIVE MemberValue(_, _, _, _)
RECURSIVE MemberEnd(_, _, _, _)
RECURSIVE MemberNext(_, _, _, _)
RECURSIVE ParseElements(_, _, _)
RECURSIVE ElementEnd(_, _, _)
RECURSIVE ElementNext(_, _, _)

\* After a member and the blanks behind it, at s[e]: a comma and the next
\* member, or the closing brace.
MemberNext(s, e, keys, kids) ==
    IF e > Len(s) THEN Fail
    ELSE IF s[e] = CM THEN ParseMembers(s, e + 1, keys, kids)
    ELSE IF s[e] = RB THEN Parsed(e + 1, Obj(keys, kids))
    ELSE Fail

\* v is the parse of a member's value.
MemberEnd(s, v, keys, kids) ==
    IF ~v.ok THEN Fail
    ELSE MemberNext(s, SkipWs(s, v.pos), keys, Append(kids, v.v))

\* After a member's name and the blanks behind it, at s[c]: the colon and
\* the value.
MemberValue(s, c, keys, kids) ==
    IF c > Len(s) \/ s[c] # CL THEN Fail
    ELSE MemberEnd(s, ParseValue(s, c + 1), keys, kids)

\* k is the parse of a member's name.
MemberColon(s, k, keys, kids) ==
    IF ~k.ok THEN Fail
    ELSE MemberValue(s, SkipWs(s, k.pos), Append(keys, k.v.s), kids)

\* A member starts at s[j] with the quote of its name.
MemberName(s, j, keys, kids) ==
    IF j > Len(s) \/ s[j] # Q THEN Fail
    ELSE MemberColon(s, ParseChars(s, j + 1), keys, kids)

\* The members of an object from s[i] on, after the opening brace or a comma.
ParseMembers(s, i, keys, kids) == MemberName(s, SkipWs(s, i), keys, kids)

\* After an element and the blanks behind it, at s[e]: a comma and the next
\* element, or the closing bracket.
ElementNext(s, e, kids) ==
    IF e > Len(s) THEN Fail
    ELSE IF s[e] = CM THEN ParseElements(s, e + 1, kids)
    ELSE IF s[e] = RK THEN Parsed(e + 1, Arr(kids))
    ELSE Fail

\* v is the parse of an element.
ElementEnd(s, v, kids) ==
    IF ~v.ok THEN Fail
    ELSE ElementNext(s, SkipWs(s, v.pos), Append(kids, v.v))

\* The elements of an array from s[i] on.
ParseElements(s, i, kids) == ElementEnd(s, ParseValue(s, i), kids)

\* A value starts at s[j].
ValueAt(s, j) ==
    IF j > Len(s) THEN Fail
    ELSE IF s[j] = LB
         THEN LET m == SkipWs(s, j + 1) IN
              IF m <= Len(s) /\ s[m] = RB THEN Parsed(m + 1, Obj(<<>>, <<>>))
              ELSE ParseMembers(s, j + 1, <<>>, <<>>)
    ELSE IF s[j] = LK
         THEN LET m == SkipWs(s, j + 1) IN
              IF m <= Len(s) /\ s[m] = RK THEN Parsed(m + 1, EmptyArray)
              ELSE ParseElements(s, j + 1, <<>>)
    ELSE IF s[j] = Q THEN ParseChars(s, j + 1)
    ELSE IF s[j] \in Digits
         THEN LET e == DigitsEnd(s, j) IN
              IF s[j] = "0" /\ e > j + 1 THEN Fail
              ELSE Parsed(e, Num(SubSeq(s, j, e - 1)))
    ELSE IF s[j] = "null"  THEN Parsed(j + 1, Null)
    ELSE IF s[j] = "true"  THEN Parsed(j + 1, True)
    ELSE IF s[j] = "false" THEN Parsed(j + 1, False)
    ELSE Fail

\* The value that starts at or after s[i].
ParseValue(s, i) == ValueAt(s, SkipWs(s, i))

\* r is the parse of the one value of the text s: only blanks may follow it.
WholeText(s, r) ==
    IF r.ok /\ SkipWs(s, r.pos) > Len(s)
    THEN [ok |-> TRUE, v |-> r.v]
    ELSE [ok |-> FALSE, v |-> Undefined]

\* JSON.parse(s): ok is FALSE where JSON.parse throws a SyntaxError.
JSONparse(s) == WholeText(s, ParseValue(s, 1))

(***************************************************************************)
(* The regular expression of the fallback: the quoted word response,       *)
(* optional whitespace, a colon, optional whitespace, an opening quote,    *)
(* the capture group (any run of items, an item being either one character *)
(* other than a quote or a backslash, or a backslash and the one character *)
(* after it), and then a closing quote or the end of the input.            *)
(* And the unescaping: every backslash-and-character pair becomes the      *)
(* character.                                                              *)
(***************************************************************************)
NoMatch == [found |-> FALSE, group |-> <<>>]

\* Where the greedy capture group stops when it starts at s[i].  Each
\* character admits one alternative only, and giving back an iteration leaves
\* a body character next, which neither the closing quote nor the end of
\* input matches: the longest run is the only candidate.
RECURSIVE BodyEnd(_, _)
BodyEnd(s, i) ==
    IF i > Len(s) \/ s[i] = Q THEN i
    ELSE IF s[i] = BS
         THEN IF i + 1 <= Len(s) /\ s[i + 1] \notin LineTerminators
              THEN BodyEnd(s, i + 2)
              ELSE i
    ELSE BodyEnd(s, i + 1)

\* A variant of MatchAt that insists on the closing quote.
MatchAtMutant(s, i) ==
    IF i + 3 > Len(s) \/ SubSeq(s, i, i + 3) # <<Q, "respon", "se", Q>>
    THEN NoMatch
    ELSE LET c == SkipWs(s, i + 4) IN
         IF c > Len(s) \/ s[c] # CL THEN NoMatch
         ELSE LET o == SkipWs(s, c + 1) IN
              IF o > Len(s) \/ s[o] # Q THEN NoMatch
              ELSE LET e == BodyEnd(s, o + 1) IN
                   IF e <= Len(s) /\ s[e] = Q
                   THEN [found |-> TRUE, group |-> SubSeq(s, o + 1, e - 1)]
                   ELSE NoMatch

\* The match that starts at s[i], if there is one.
MatchAt(s, i) ==
    IF i + 3 > Len(s) \/ SubSeq(s, i, i + 3) # <<Q, "respon", "se", Q>>
    THEN NoMatch
    ELSE LET c == SkipWs(s, i + 4) IN
         IF c > Len(s) \/ s[c] # CL THEN NoMatch
         ELSE LET o == SkipWs(s, c + 1) IN
              IF o > Len(s) \/ s[o] # Q THEN NoMatch
              ELSE LET e == BodyEnd(s, o + 1) IN
                   IF e > Len(s) \/ s[e] = Q
                   THEN [found |-> TRUE, group |-> SubSeq(s, o + 1, e - 1)]
                   ELSE NoMatch

\* accumulatedContent.match(responseMatch): the leftmost match.
ResponseMatch(s) ==
    LET starts == {i \in 1..Len(s) : MatchAt(s, i).found}
    IN  IF starts = {} THEN NoMatch ELSE MatchAt(s, Min(starts))

\* A variant of Unescape that leaves the text as it is.
UnescapeMutant(s, i) == SubSeq(s, i, Len(s))

\* match[1].replace(...): drop the backslash of every escaped pair.
RECURSIVE Unescape(_, _)
Unescape(s, i) ==
    IF i > Len(s) THEN <<>>
    ELSE IF s[i] = BS /\ i + 1 <= Len(s) /\ s[i + 1] \notin LineTerminators
         THEN <<s[i + 1]>> \o Unescape(s, i + 2)
    ELSE <<s[i]>> \o Unescape(s, i + 1)

(***************************************************************************)
(* The environment: what the generation endpoint streams.                  *)
(*                                                                         *)
(* A document is the structured answer the server produces; it is streamed *)
(* as the `content` of consecutive response frames, cut between its        *)
(* pieces.  The pieces are chosen so that the cuts fall inside a key,      *)
(* inside a string, right after a backslash and after the closing brace.   *)
(***************************************************************************)
RECURSIVE Cat(_)
Cat(ss) == IF ss = <<>> THEN <<>> ELSE Head(ss) \o Cat(Tail(ss))

\* The string literal of one word, and a member name followed by its colon.
Lit(w) == <<Q, w, Q>>
Key(w) == <<Q, w, Q, CL>>
KeyResponse == <<Q, "respon", "se", Q, CL>>

\* {"metadata":{"citations":["a","b"],"images":[]},"response":"hello"} and a
\* trailing blank.
DocHello ==
    << <<LB>> \o Key("metadata") \o <<LB>> \o Key("citations")
         \o <<LK>> \o Lit("a") \o <<CM>> \o Lit("b") \o <<RK, CM>>
         \o Key("images") \o <<LK, RK, RB, CM>>
         \o KeyResponse \o <<Q, "hel">>,
       <<"lo", Q, RB>>,
       <<SP>> >>

\* {"response": "partial text"}
DocPartial ==
    << <<LB, Q, "respon">>,
       <<"se", Q, CL, SP, Q, "partial", SP, "tex">>,
       <<"t", Q, RB>> >>

\* {"response":"line1\nline2"} with the two characters backslash, n in the
\* text of the document.
DocEscape ==
    << <<LB>> \o KeyResponse \o <<Q, "line1", BS>>,
       <<"n", "line2">>,
       <<Q, RB>> >>

\* {"metadata":{"citations":[],"images":["i"]},"response":"a"}
DocImages ==
    << <<LB>> \o Key("metadata") \o <<LB>> \o Key("citations") \o <<LK, RK, CM>>
         \o Key("images") \o <<LK>> \o Lit("i") \o <<RK, RB, CM>>
         \o KeyResponse \o Lit("a") \o <<RB>> >>

\* {"metadata":{"citations":["c"],"images":["j"]},"response":"b"}
DocBoth ==
    << <<LB>> \o Key("metadata") \o <<LB>> \o Key("citations")
         \o <<LK>> \o Lit("c") \o <<RK, CM>>
         \o Key("images") \o <<LK>> \o Lit("j") \o <<RK, RB, CM>>
         \o KeyResponse \o Lit("b") \o <<RB>> >>

\* {"metadata":{"citations":["d"]},"response":"x"}: no images member.
DocNoImages ==
    << <<LB>> \o Key("metadata") \o <<LB>> \o Key("citations")
         \o <<LK>> \o Lit("d") \o <<RK, RB, CM>>
         \o KeyResponse \o Lit("x") \o <<RB>> >>

\* {"metadata":{"images":["k"]},"response":"y"}: no citations member.
DocNoCitations ==
    << <<LB>> \o Key("metadata") \o <<LB>> \o Key("images")
         \o <<LK>> \o Lit("k") \o <<RK, RB, CM>>
         \o KeyResponse \o Lit("y") \o <<RB>> >>

\* {"response":""}
DocEmpty ==
    << <<LB>> \o KeyResponse \o <<Q>>,
       <<Q, RB>> >>

\* null
DocNull == << <<"null">> >>

Docs == <<DocHello, DocPartial, DocEscape, DocImages, DocBoth, DocNoImages,
          DocNoCitations, DocEmpty, DocNull>>

\* The documents the other chat view may be streaming.
OtherDocs == {DocBoth}

\* The text of pieces from+1 .. to of document d.
Slice(d, from, to) == Cat(SubSeq(Docs[d], from + 1, to))
Whole(d) == Slice(d, 0, Len(Docs[d]))

\* The tools the server calls (their names are those of toolMapping).
ToolNames == <<"query_embeddings", "get_chunk_information", "get_chunk_images">>
ToolArguments == Obj(<< <<"query">> >>, <<Str(<<"v">>)>>)

\* A string as the server's JSON encoder writes it.
RECURSIVE Escaped(_, _, _)
Escaped(s, lo, hi) ==
    IF lo > hi THEN <<>>
    ELSE IF lo = hi
         THEN CASE s[lo] = Q  -> <<BS, Q>>
                [] s[lo] = BS -> <<BS, BS>>
                [] s[lo] = LF -> <<BS, "n">>
                [] OTHER -> <<s[lo]>>
    ELSE LET mid == (lo + hi) \div 2
         IN  Escaped(s, lo, mid) \o Escaped(s, mid + 1, hi)
EncodeString(s) == <<Q>> \o Escaped(s, 1, Len(s)) \o <<Q>>

\* The frames of the stream, one line each.
ResponseFrame(content) ==
    <<LB>> \o Key("type") \o <<Q, "respon", "se", Q, CM>>
           \o Key("content") \o EncodeString(content) \o <<RB>>
ToolCallFrame(n) ==
    <<LB>> \o Key("type") \o Lit("tool_call") \o <<CM>>
           \o Key("tool_name") \o Lit(ToolNames[n]) \o <<CM>>
           \o Key("arguments") \o <<LB>> \o Key("query") \o Lit("v") \o <<RB, RB>>
\* A frame of a type the client does not know.
OtherFrame == <<LB>> \o Key("type") \o Lit("ping") \o <<RB>>
\* A line that is no JSON: a frame cut short.
GarbageFrame == <<LB>> \o Key("type") \o <<Q, "respon">>
\* A line that is JSON but no object.
NullFrame == <<"null">>

(***************************************************************************)
(* Bounds of the model                                                     *)
(***************************************************************************)
\* The tool_call frames the server sends in one stream.
MaxToolCalls == 2
\* The lines that make the client warn (no JSON, or JSON null) in one stream.
MaxBad == 1

(***************************************************************************)
(* State                                                                   *)
(***************************************************************************)
VARIABLES
    \* state of the PDFChat component
    messages, inputMessage, isLoading, streamingText, streamingToolCalls,
    \* the global response store
    metadata,
    \* handleSendMessage / handleStreamingResponse: where the call stands, and
    \* the locals of handleStreamingResponse
    pc, result, responseImages, accumulatedContent, toolCalls,
    \* what the client reports: toast.error, console.error, console.warn
    toasts, errors, warnings,
    \* the server side of the stream
    server,
    \* one record per response frame processed in this stream (see Logged)
    log,
    \* the global response store, continued: the hovered segment and the
    \* show-all toggle
    hoveredChunkId, showAllBboxes,
    \* the citation markers rendered from the code span last rendered, and
    \* what the last click on one of them read and did
    citationCounts, lastClick,
    \* the page elements of the document in the DOM, and what
    \* BoundingBoxDisplay returned when it last rendered
    dom, display,
    \* the PDF viewer: whether it is mounted, the clock, the timers of the
    \* browser, the viewer's handles on its scroll timer and on the timer of
    \* its width debounce, the id of the last timer started, the two widths
    \* of PDFViewerComponent, and whether a render it asked for is yet to be
    \* committed
    mounted, now, timers, scrollTimeoutRef, debounceTimerId, lastTimerId,
    pageWidth, displayPageWidth, effectsPending,
    \* what the viewer's scroll requests and timer callbacks did
    scrollLog,
    \* the keys in localStorage, the Upload component of the home page, the
    \* toasts the home page raised, and whether the home page is open
    localStorage, upload, notices, homeOpen,
    \* the arguments of the last call of each mutator of the store, which
    \* mutator was called last, and the store as that call found it
    written,
    \* what the server has sent of a frame and the reader has yet to read,
    \* how many frames came in two reads, and what the decoder would hold
    \* had each frame come in one read
    wire

\* The variables of the chat view and its stream.
chatVars == <<messages, inputMessage, isLoading, streamingText,
              streamingToolCalls, metadata, pc, result, responseImages,
              accumulatedContent, toolCalls, toasts, errors, warnings, server,
              log>>

\* The store's variables the send flow of the chat view never writes.
storeVars == <<hoveredChunkId, showAllBboxes>>

\* The variables of the rendered citation markers.
citationVars == <<citationCounts, lastClick>>

\* The variables of the bounding boxes drawn over the pages.
boxVars == <<dom, display>>

\* The variables of the PDF viewer.
viewerVars == <<mounted, now, timers, scrollTimeoutRef, debounceTimerId,
                lastTimerId, pageWidth, displayPageWidth, effectsPending,
                scrollLog>>

\* The variables of the home page, and localStorage.
submitVars == <<localStorage, upload, notices, homeOpen>>

\* The record of the calls of the store's mutators.
writeVars == <<written>>

\* The variables neither the chat view nor the markers nor the store hold.
outsideCitation == <<boxVars, viewerVars, submitVars, writeVars, wire>>

\* The variables neither the chat view nor the store nor the boxes hold.
outsideBoxes == <<citationVars, viewerVars, submitVars, writeVars, wire>>

\* The variables neither the chat view nor the store nor the boxes nor the
\* viewer hold.
outsideViewer == <<citationVars, submitVars, writeVars, wire>>

\* The variables neither the chat view nor the store nor the home page
\* hold.
outsideSubmit == <<citationVars, boxVars, viewerVars, writeVars, wire>>

\* All the variables the send flow of the chat view never writes.
elsewhere == <<storeVars, citationVars, boxVars, viewerVars, submitVars,
               writeVars, wire>>

vars == <<chatVars, elsewhere>>

EmptyMetadata == [citations |-> EmptyArray, images |-> EmptyArray]

(***************************************************************************)
(* handleStreamingResponse, as a function of the state it reads and writes *)
(* The state is a record st of the variables above plus `calls`, the       *)
(* setter calls of the frame in hand, and `before`, the store's metadata   *)
(* when the frame in hand arrived.                                         *)
(***************************************************************************)
Call(fn, text, citations, images) ==
    [fn |-> fn, text |-> text, citations |-> citations, images |-> images]

\* setMetadata(m) of the store.
SetMetadata(st, m) ==
    [st EXCEPT !.metadata = m,
               !.calls = Append(@, Call("setMetadata", Undefined,
                                        m.citations, m.images))]

\* A variant of SetStreamingText that appends to the text on display.
SetStreamingTextMutant(st, v) ==
    [st EXCEPT !.streamingText = Str(@.s \o JSToString(v)),
               !.calls = Append(@, Call("setStreamingText", v,
                                        Undefined, Undefined))]

\* setStreamingText(v) of the component.
SetStreamingText(st, v) ==
    [st EXCEPT !.streamingText = v,
               !.calls = Append(@, Call("setStreamingText", v,
                                        Undefined, Undefined))]

\* The first metadata update: the citations of the parse, when not empty.
PublishCitations(st, md) ==
    LET citations == Get(md, <<"citations">>)
        images    == Get(md, <<"images">>)
    IN  IF Truthy(citations) /\ LengthPositive(citations)
        THEN SetMetadata(st, [citations |-> citations,
                              images |-> IF Truthy(images) THEN images
                                         ELSE EmptyArray])
        ELSE st

\* A variant of PublishImages that takes the citations from the parse.
PublishImagesMutant(st, md) ==
    LET images == Get(md, <<"images">>)
        citations == Get(md, <<"citations">>)
    IN  IF Truthy(images) /\ LengthPositive(images)
        THEN SetMetadata([st EXCEPT !.responseImages = images],
                         [citations |-> IF Truthy(citations) THEN citations
                                        ELSE EmptyArray,
                          images |-> images])
        ELSE st

\* The second metadata update: the images of the parse, when not empty.
PublishImages(st, md) ==
    LET images == Get(md, <<"images">>)
    IN  IF Truthy(images) /\ LengthPositive(images)
        THEN SetMetadata([st EXCEPT !.responseImages = images],
                         [citations |-> st.metadata.citations,
                          images |-> images])
        ELSE st

PublishMetadata(st, jsonResponse) ==
    LET md == Get(jsonResponse, <<"metadata">>)
    IN  IF Truthy(md) THEN PublishImages(PublishCitations(st, md), md) ELSE st

\* A variant of PublishResponse that forgets to keep the text for the return.
PublishResponseMutant(st, jsonResponse) ==
    LET response == Get(jsonResponse, <<"respon", "se">>)
    IN  IF Truthy(response) THEN SetStreamingText(st, response) ELSE st

PublishResponse(st, jsonResponse) ==
    LET response == Get(jsonResponse, <<"respon", "se">>)
    IN  IF Truthy(response)
        THEN [SetStreamingText(st, response) EXCEPT !.result = response]
        ELSE st

\* A variant of Fallback that shows the raw buffer when nothing matches.
FallbackMutant(st) ==
    LET match == ResponseMatch(st.accumulatedContent)
    IN  IF match.found /\ match.group # <<>>
        THEN LET partialResponse == Str(Unescape(match.group, 1))
             IN  [SetStreamingText(st, partialResponse)
                    EXCEPT !.result = partialResponse]
        ELSE SetStreamingText(st, Str(st.accumulatedContent))

\* The catch block of the inner try.
Fallback(st) ==
    LET match == ResponseMatch(st.accumulatedContent)
    IN  IF match.found /\ match.group # <<>>
        THEN LET partialResponse == Str(Unescape(match.group, 1))
             IN  [SetStreamingText(st, partialResponse)
                    EXCEPT !.result = partialResponse]
        ELSE st

\* The inner try, parsed being the outcome of JSON.parse(accumulatedContent):
\* JSON.parse throws on a buffer that is no JSON, and reading .metadata of
\* null throws; either way before any update.
Interpret(st, parsed) ==
    IF parsed.ok /\ ~Throws(parsed.v)
    THEN PublishResponse(PublishMetadata(st, parsed.v), parsed.v)
    ELSE Fallback(st)

\* A variant of Accumulate that keeps only the content of the last frame.
AccumulateMutant(st, data) ==
    [st EXCEPT !.accumulatedContent = JSToString(Get(data, <<"content">>)),
               !.calls = <<>>,
               !.before = st.metadata]

\* accumulatedContent += data.content
Accumulate(st, data) ==
    [st EXCEPT !.accumulatedContent = @ \o JSToString(Get(data, <<"content">>)),
               !.calls = <<>>,
               !.before = st.metadata]

\* The record of a response frame that has been processed: the buffer after
\* the append, the store's metadata before and after the frame, the setter
\* calls the frame made, the text on display after it, and the warnings
\* logged so far.
Logged(st) ==
    [st EXCEPT !.log = Append(@, [buffer |-> st.accumulatedContent,
                                  before |-> st.before,
                                  calls |-> st.calls,
                                  after |-> st.metadata,
                                  text |-> st.streamingText,
                                  warnings |-> st.warnings])]

\* The branch of a response frame, st being the state after the append.
Reinterpret(st) == Logged(Interpret(st, JSONparse(st.accumulatedContent)))

OnResponse(st, data) == Reinterpret(Accumulate(st, data))

\* A variant of OnToolCall that puts the new record first.
OnToolCallMutant(st, data) ==
    LET toolCall == Obj(<< <<"tool_name">>, <<"arguments">> >>,
                        << Get(data, <<"tool_name">>),
                           Get(data, <<"arguments">>) >>)
    IN  [st EXCEPT !.toolCalls = Arr(<<toolCall>> \o @.kids),
                   !.streamingToolCalls = Arr(<<toolCall>> \o @.kids)]

OnToolCall(st, data) ==
    LET toolCall == Obj(<< <<"tool_name">>, <<"arguments">> >>,
                        << Get(data, <<"tool_name">>),
                           Get(data, <<"arguments">>) >>)
    IN  [st EXCEPT !.toolCalls = Arr(Append(@.kids, toolCall)),
                   !.streamingToolCalls = Arr(Append(@.kids, toolCall))]

\* A variant of Dispatch whose catch drops the buffer.
DispatchMutant(st, parsed) ==
    IF ~parsed.ok \/ Throws(parsed.v)
    THEN [st EXCEPT !.warnings = @ + 1, !.accumulatedContent = <<>>]
    ELSE LET type == Get(parsed.v, <<"type">>)
         IN  IF type = Str(<<"tool_call">>) THEN OnToolCall(st, parsed.v)
             ELSE IF type = Str(<<"respon", "se">>)
                  THEN OnResponse(st, parsed.v)
             ELSE st

\* The outer try and its catch, parsed being the outcome of JSON.parse(line):
\* the catch only warns.
Dispatch(st, parsed) ==
    IF ~parsed.ok \/ Throws(parsed.v)
    THEN [st EXCEPT !.warnings = @ + 1]
    ELSE LET type == Get(parsed.v, <<"type">>)
         IN  IF type = Str(<<"tool_call">>) THEN OnToolCall(st, parsed.v)
             ELSE IF type = Str(<<"respon", "se">>)
                  THEN OnResponse(st, parsed.v)
             ELSE st

\* The body of the loop over the lines.
ProcessLine(st, line) == Dispatch(st, JSONparse(line))

\* chunk.split('\n'): the stretches between the line feeds.
Split(s) ==
    LET breaks == {i \in 1..Len(s) : s[i] = LF}
        n == Cardinality(breaks)
        Break(k) == CHOOSE b \in breaks : Cardinality({x \in breaks : x <= b}) = k
    IN  [k \in 1..(n + 1) |->
            SubSeq(s, IF k = 1 THEN 1 ELSE Break(k - 1) + 1,
                      IF k = n + 1 THEN Len(s) ELSE Break(k) - 1)]

\* line.trim() is not empty
NotBlank(line) == \E i \in 1..Len(line) : line[i] \notin Whitespace

\* chunk.split('\n').filter((line) => line.trim())
Lines(chunk) == SelectSeq(Split(chunk), NotBlank)

RECURSIVE ProcessLines(_, _, _)
ProcessLines(st, lines, i) ==
    IF i > Len(lines) THEN st
    ELSE ProcessLines(ProcessLine(st, lines[i]), lines, i + 1)

\* One pass of the read loop over a chunk that was read.
ProcessChunk(st, chunk) == ProcessLines(st, Lines(chunk), 1)

(***************************************************************************)
(* The server side of one stream                                           *)
(***************************************************************************)
\* doc: the document being streamed; sent: its pieces sent so far; tools:
\* the tools called so far; bad: the lines sent that make the client warn.
NoStream == [doc |-> 0, sent |-> 0, tools |-> <<>>, bad |-> 0]

Command(k, n) == [k |-> k, n |-> n]
NoCommand == Command("none", 0)

\* The tool the server calls next: it works through ToolNames, round and
\* round.
NextTool(srv) == (Len(srv.tools) % Len(ToolNames)) + 1

\* What the server may send next.
Commands(srv) ==
    {Command("content", n) : n \in 1..(Len(Docs[srv.doc]) - srv.sent)}
    \cup (IF Len(srv.tools) < MaxToolCalls
          THEN {Command("tool", NextTool(srv))} ELSE {})
    \cup (IF srv.bad < MaxBad
          THEN {Command("garbage", 0), Command("null", 0)} ELSE {})
    \cup {Command("other", 0)}

\* The line a command puts on the wire.
Frame(srv, c) ==
    CASE c.k = "content" -> ResponseFrame(Slice(srv.doc, srv.sent, srv.sent + c.n))
      [] c.k = "tool"    -> ToolCallFrame(c.n)
      [] c.k = "garbage" -> GarbageFrame
      [] c.k = "null"    -> NullFrame
      [] c.k = "other"   -> OtherFrame

After(srv, c) ==
    CASE c.k = "content" -> [srv EXCEPT !.sent = @ + c.n]
      [] c.k = "tool"    -> [srv EXCEPT !.tools = Append(@, c.n)]
      [] c.k \in {"garbage", "null"} -> [srv EXCEPT !.bad = @ + 1]
      [] OTHER -> srv

(***************************************************************************)
(* The send flow of the PDFChat component                                  *)
(***************************************************************************)
UserMessage(content) ==
    [role |-> "user", content |-> content, images |-> Undefined,
     toolCalls |-> Undefined]

AssistantMessage(text, images, calls) ==
    [role |-> "assistant", content |-> text, images |-> images,
     toolCalls |-> IF Len(calls.kids) > 0 THEN calls ELSE Undefined]

\* What the user may type.
InputTexts == {<<>>, <<SP>>, <<"hi">>}

\* inputMessage.trim() is empty
Blank(text) == ~NotBlank(text.s)

ToastText == "Failed to send message. Please try again."

\* The store as create() leaves it, metadata apart.
StoreInit ==
    /\ hoveredChunkId = Null
    /\ showAllBboxes = FALSE

\* No marker clicked since the store last took a citation list.
NoClick == [count |-> 0, chunkId |-> Undefined, before |-> Null,
            threw |-> FALSE, clicked |-> FALSE]

\* BoundingBoxDisplay has not rendered.
NoDisplay == [hovered |-> Null, showAll |-> FALSE, dom |-> <<>>,
              selected |-> <<>>, rendered |-> <<>>, done |-> FALSE]

\* No page element is mounted until the document has loaded.
BoxInit ==
    /\ dom = <<>>
    /\ display = NoDisplay

\* No message rendered yet.
CitationInit ==
    /\ citationCounts = <<>>
    /\ lastClick = NoClick

\* The viewer has made no scroll.
NoTop == [n |-> 0, d |-> 1]
NoScroll == [how |-> "none", top |-> NoTop]

\* No scroll requested, no timer callback run, the viewer not unmounted.
NoRequest == [time |-> 0, page |-> 0, id |-> Null]
NoScrollYet ==
    [done |-> FALSE, time |-> 0, page |-> 0, hovered |-> Null, no |-> 0,
     dom |-> <<>>, scroll |-> NoScroll]
NotUnmounted ==
    [done |-> FALSE, scrollDue |-> 0, resizeDue |-> 0, scroll |-> FALSE,
     resize |-> FALSE, display |-> 0]

\* The viewer is mounted, its pane not yet measured, no timer started.
ViewerInit ==
    /\ mounted = TRUE
    /\ now = 0
    /\ timers = {}
    /\ scrollTimeoutRef = 0
    /\ debounceTimerId = 0
    /\ lastTimerId = 0
    /\ pageWidth = 0
    /\ displayPageWidth = 0
    /\ effectsPending = FALSE
    /\ scrollLog = [requests |-> 0, served |-> 0, fired |-> 0, moved |-> FALSE,
                    lastRequest |-> NoRequest, lastScroll |-> NoScrollYet,
                    atUnmount |-> NotUnmounted]

\* The Upload component as it mounts.
NoUpload ==
    [form |-> "none", uploading |-> FALSE, pc |-> "idle", toast |-> <<>>,
     outcome |-> "none", request |-> "none"]

\* A browser that has stored no key, with the home page open.
SubmitInit ==
    /\ localStorage = [openai_api_key |-> Null, openrouter_api_key |-> Null,
                       chunkr_api_key |-> Null]
    /\ upload = NoUpload
    /\ notices = <<>>
    /\ homeOpen = TRUE

\* The store as create() leaves it, and no mutator called.
InitialStore ==
    [hoveredChunkId |-> Null, metadata |-> EmptyMetadata,
     showAllBboxes |-> FALSE]
WriteInit ==
    written = [last |-> "none", id |-> Null, metadata |-> EmptyMetadata,
               showAll |-> FALSE, before |-> InitialStore]

\* What handleStreamingResponse holds and shows when it has read nothing.
NothingDecoded ==
    [accumulatedContent |-> <<>>, result |-> EmptyString,
     responseImages |-> EmptyArray, toolCalls |-> EmptyArray,
     streamingText |-> EmptyString, streamingToolCalls |-> EmptyArray,
     metadata |-> EmptyMetadata]
WireInit == wire = [rest |-> <<>>, splits |-> 0, whole |-> NothingDecoded]

Init ==
    /\ messages = <<>>
    /\ inputMessage = EmptyString
    /\ isLoading = FALSE
    /\ streamingText = EmptyString
    /\ streamingToolCalls = EmptyArray
    /\ metadata = EmptyMetadata
    /\ pc = "idle"
    /\ result = EmptyString
    /\ responseImages = EmptyArray
    /\ accumulatedContent = <<>>
    /\ toolCalls = EmptyArray
    /\ toasts = <<>>
    /\ errors = <<>>
    /\ warnings = 0
    /\ server = NoStream
    /\ log = <<>>
    /\ StoreInit
    /\ CitationInit
    /\ BoxInit
    /\ ViewerInit
    /\ SubmitInit
    /\ WriteInit
    /\ WireInit

\* onChange of the textarea, which is disabled while a send is loading.
TypeInput ==
    /\ pc = "idle"
    /\ ~isLoading
    /\ \E text \in InputTexts : inputMessage' = Str(text)
    /\ UNCHANGED <<messages, isLoading, streamingText, streamingToolCalls,
                   metadata, pc, result, responseImages, accumulatedContent,
                   toolCalls, toasts, errors, warnings, server, log>>
    /\ UNCHANGED elsewhere

\* The view has yet to send, or its send is in flight.
Sendable == {"idle", "fetching", "streaming"}

\* A variant of SendMessage that does not look at isLoading.
SendMessageMutant ==
    /\ pc \in Sendable
    /\ IF Blank(inputMessage)
       THEN UNCHANGED vars
       ELSE /\ messages' = Append(messages, UserMessage(inputMessage))
            /\ isLoading' = TRUE
            /\ streamingText' = EmptyString
            /\ streamingToolCalls' = EmptyArray
            /\ metadata' = EmptyMetadata
            /\ pc' = "fetching"
            /\ UNCHANGED <<inputMessage, result, responseImages,
                           accumulatedContent, toolCalls, toasts, errors,
                           warnings, server, log, elsewhere>>

\* handleSendMessage up to its await of fetch, called by the Enter key or
\* the button at any time before the stream has ended: the state updates of
\* one call are rendered before the next event is handled, so the call
\* reads the isLoading of the moment.
SendMessage ==
    /\ pc \in Sendable
    /\ IF Blank(inputMessage) \/ isLoading
       THEN UNCHANGED vars
       ELSE /\ messages' = Append(messages, UserMessage(inputMessage))
            /\ isLoading' = TRUE
            /\ streamingText' = EmptyString
            /\ streamingToolCalls' = EmptyArray
            /\ metadata' = EmptyMetadata
            /\ pc' = "fetching"
            /\ UNCHANGED <<inputMessage, result, responseImages,
                           accumulatedContent, toolCalls, toasts, errors,
                           warnings, server, log, elsewhere>>

\* The catch and finally blocks of handleSendMessage.
Abort(error) ==
    /\ toasts' = Append(toasts, ToastText)
    /\ errors' = Append(errors, error)
    /\ isLoading' = FALSE
    /\ inputMessage' = EmptyString
    /\ streamingText' = EmptyString
    /\ streamingToolCalls' = EmptyArray
    /\ pc' = "settled"

\* fetch rejects, or answers with a status that is not ok.
FetchFails ==
    /\ pc = "fetching"
    /\ \E error \in {"fetch failed", "Failed to get response"} : Abort(error)
    /\ UNCHANGED <<messages, metadata, result, responseImages,
                   accumulatedContent, toolCalls, warnings, server, log>>
    /\ UNCHANGED elsewhere

\* A variant of NoReader in which the send flow goes on to append an
\* assistant message.
NoReaderMutant ==
    /\ pc = "fetching"
    /\ Abort("Failed to get reader")
    /\ messages' = Append(messages,
                          AssistantMessage(result, responseImages, toolCalls))
    /\ UNCHANGED <<metadata, result, responseImages,
                   accumulatedContent, toolCalls, warnings, server, log>>
    /\ UNCHANGED elsewhere

\* The response has no body: handleStreamingResponse throws at once.
NoReader ==
    /\ pc = "fetching"
    /\ Abort("Failed to get reader")
    /\ UNCHANGED <<messages, metadata, result, responseImages,
                   accumulatedContent, toolCalls, warnings, server, log>>
    /\ UNCHANGED elsewhere

\* The response is ok and has a body: handleStreamingResponse sets up its
\* locals and awaits the first read.  The server streams one of Docs.
StartStream ==
    /\ pc = "fetching"
    /\ \E d \in 1..Len(Docs) : server' = [NoStream EXCEPT !.doc = d]
    /\ result' = EmptyString
    /\ responseImages' = EmptyArray
    /\ accumulatedContent' = <<>>
    /\ toolCalls' = EmptyArray
    /\ pc' = "streaming"
    /\ UNCHANGED <<messages, inputMessage, isLoading, streamingText,
                   streamingToolCalls, metadata, toasts, errors, warnings, log>>
    /\ UNCHANGED elsewhere

\* What handleStreamingResponse reads and writes, as a record.
Current ==
    [accumulatedContent |-> accumulatedContent, result |-> result,
     responseImages |-> responseImages, toolCalls |-> toolCalls,
     streamingText |-> streamingText,
     streamingToolCalls |-> streamingToolCalls, metadata |-> metadata,
     warnings |-> warnings, log |-> log, calls |-> <<>>, before |-> metadata]

\* The text of a chunk that carries the frame of c1 and, unless c2 is
\* NoCommand, the frame of c2 behind it.
ChunkOf(srv, c1, c2) ==
    Frame(srv, c1) \o <<LF>>
    \o (IF c2 = NoCommand THEN <<>> ELSE Frame(After(srv, c1), c2) \o <<LF>>)

\* The state after a pass of the read loop that ended in state st, the
\* server being left in srv.
Deliver(st, srv) ==
    /\ server' = srv
    /\ accumulatedContent' = st.accumulatedContent
    /\ result' = st.result
    /\ responseImages' = st.responseImages
    /\ toolCalls' = st.toolCalls
    /\ streamingText' = st.streamingText
    /\ streamingToolCalls' = st.streamingToolCalls
    /\ metadata' = st.metadata
    /\ warnings' = st.warnings
    /\ log' = st.log

\* reader.read() resolves with a chunk of one or two frames, and the loop
\* body runs over its lines.
ReadChunk ==
    /\ pc = "streaming"
    /\ \E c1 \in Commands(server) :
         \E c2 \in Commands(After(server, c1)) \cup {NoCommand} :
           Deliver(ProcessChunk(Current, ChunkOf(server, c1, c2)),
                   IF c2 = NoCommand THEN After(server, c1)
                   ELSE After(After(server, c1), c2))
    /\ UNCHANGED <<messages, inputMessage, isLoading, pc, toasts, errors>>
    /\ UNCHANGED elsewhere

\* A variant of ReadDone that leaves the text of the stream on display.
ReadDoneMutant ==
    /\ pc = "streaming"
    /\ messages' = Append(messages,
                          AssistantMessage(result, responseImages, toolCalls))
    /\ isLoading' = FALSE
    /\ inputMessage' = EmptyString
    /\ streamingToolCalls' = EmptyArray
    /\ pc' = "settled"
    /\ UNCHANGED <<metadata, result, responseImages, accumulatedContent,
                   toolCalls, toasts, errors, warnings, server, log,
                   streamingText>>
    /\ UNCHANGED elsewhere

\* reader.read() resolves with done: handleStreamingResponse returns, and
\* handleSendMessage appends the assistant message and runs its finally.
ReadDone ==
    /\ pc = "streaming"
    /\ messages' = Append(messages,
                          AssistantMessage(result, responseImages, toolCalls))
    /\ isLoading' = FALSE
    /\ inputMessage' = EmptyString
    /\ streamingText' = EmptyString
    /\ streamingToolCalls' = EmptyArray
    /\ pc' = "settled"
    /\ UNCHANGED <<metadata, result, responseImages, accumulatedContent,
                   toolCalls, toasts, errors, warnings, server, log>>
    /\ UNCHANGED elsewhere

\* A variant of ReadFails in which the rejection is reported and the loop
\* reads on.
ReadFailsMutant ==
    /\ pc = "streaming"
    /\ errors = <<>>
    /\ errors' = Append(errors, "read failed")
    /\ UNCHANGED <<messages, inputMessage, isLoading, streamingText,
                   streamingToolCalls, metadata, pc, result, responseImages,
                   accumulatedContent, toolCalls, toasts, warnings, server,
                   log>>
    /\ UNCHANGED elsewhere

\* reader.read() rejects (the connection broke).
ReadFails ==
    /\ pc = "streaming"
    /\ Abort("read failed")
    /\ UNCHANGED <<messages, metadata, result, responseImages,
                   accumulatedContent, toolCalls, warnings, server, log>>
    /\ UNCHANGED elsewhere

(***************************************************************************)
(* The other chat view.  The task page mounts PDFChat twice (one for the   *)
(* narrow layout, one for the wide one; CSS shows one of them), and both   *)
(* write the one global store.  Of the other view only its writes to the   *)
(* store are modelled: the reset at the start of its send, and the updates *)
(* its decoder makes when it parses one of Docs, which may come before     *)
(* this view sends or while it streams.                                    *)
(***************************************************************************)
OtherViewSends ==
    /\ pc = "streaming"
    /\ metadata' = EmptyMetadata
    /\ UNCHANGED <<messages, inputMessage, isLoading, streamingText,
                   streamingToolCalls, pc, result, responseImages,
                   accumulatedContent, toolCalls, toasts, errors, warnings,
                   server, log>>
    /\ UNCHANGED elsewhere

OtherViewDecodes ==
    /\ pc \in {"idle", "streaming"}
    /\ \E doc \in OtherDocs :
         \E parsed \in {JSONparse(Cat(doc))} :
            /\ parsed.ok /\ ~Throws(parsed.v)
            /\ metadata' = PublishMetadata(Current, parsed.v).metadata
    /\ UNCHANGED <<messages, inputMessage, isLoading, streamingText,
                   streamingToolCalls, pc, result, responseImages,
                   accumulatedContent, toolCalls, toasts, errors, warnings,
                   server, log>>
    /\ UNCHANGED elsewhere

Next ==
    \/ TypeInput
    \/ SendMessage
    \/ FetchFails
    \/ NoReader
    \/ StartStream
    \/ ReadChunk
    \/ ReadDone
    \/ ReadFails
    \/ OtherViewSends
    \/ OtherViewDecodes

\* One send of one chat view, from the idle view to the settled one, beside
\* the other view's writes to the store.
Spec == Init /\ [][Next]_vars

(***************************************************************************)
(* Properties of the decoder                                               *)
(***************************************************************************)
Response == <<"respon", "se">>

\* The record the decoder makes of tool n, and of a run of tools.
ToolRecord(n) ==
    Obj(<< <<"tool_name">>, <<"arguments">> >>,
        << Str(<<ToolNames[n]>>), ToolArguments >>)
ToolRecords(tools) == Arr([k \in 1..Len(tools) |-> ToolRecord(tools[k])])

\* The calls of one setter among the calls of a frame.
CallsOf(fn, calls) == SelectSeq(calls, LAMBDA c : c.fn = fn)
TextCall(v) == Call("setStreamingText", v, Undefined, Undefined)
MetadataCall(citations, images) ==
    Call("setMetadata", Undefined, citations, images)

\* p, the outcome of JSON.parse, is a value with members to read.
Readable(p) == p.ok /\ ~Throws(p.v)
CitationsOf(p) == Get(Get(p.v, <<"metadata">>), <<"citations">>)
ImagesOf(p) == Get(Get(p.v, <<"metadata">>), <<"images">>)
NonEmptyList(v) == v.t = "array" /\ Len(v.kids) > 0
EmptyOrAbsent(v) == v \in {Undefined, EmptyArray}

\* The text on display before frame i of the log.
TextBefore(i) == IF i = 1 THEN EmptyString ELSE log[i - 1].text

\* The buffer b with the open string and the object closed.
Closed(b) == b \o <<Q, RB>>

\* p, the parse of a buffer with its string and object closed, is an object
\* whose last member is the response.
EndsInResponse(p) ==
    /\ Readable(p) /\ p.v.t = "object" /\ Len(p.v.keys) > 0
    /\ p.v.keys[Len(p.v.keys)] = Response

\* The places of buffer b whose quote opens the response value that b is cut
\* in, p being the parse of Closed(b): they are those from which the rest of
\* b, put between quotes, is a string that decodes to the response of p.
CutsOf(b, p) ==
    IF ~EndsInResponse(p) THEN {}
    ELSE {k \in 1..Len(b) :
             /\ b[k] = Q
             /\ JSONparse(<<Q>> \o SubSeq(b, k + 1, Len(b)) \o <<Q>>)
                  = [ok |-> TRUE, v |-> p.v.kids[Len(p.v.kids)]]}

\* Empty unless b is a document cut inside the value of its response.
CutIn(b) == CutsOf(b, JSONparse(Closed(b)))
RawFrom(b, k) == SubSeq(b, k + 1, Len(b))

\* s without the backslash that opens each escaped pair.
Bare(s) ==
    LET keep == {i \in 1..Len(s) :
                    ~(s[i] = BS /\ i < Len(s) /\ BackslashRun(s, 1, i) % 2 = 0)}
        Nth(k) == CHOOSE i \in keep : Cardinality({x \in keep : x <= i}) = k
    IN  [k \in 1..Cardinality(keep) |-> s[Nth(k)]]

\* The last text published in this stream, and the last list of images a
\* parse of the buffer held.
Published == {i \in 1..Len(log) : CallsOf("setStreamingText", log[i].calls) # <<>>}
WithImages == {i \in 1..Len(log) :
                  LengthPositive(ImagesOf(JSONparse(log[i].buffer)))
                  /\ Readable(JSONparse(log[i].buffer))}
Max(S) == CHOOSE m \in S : \A x \in S : x <= m
LastOf(calls) == calls[Len(calls)]
LastText ==
    IF Published = {} THEN EmptyString
    ELSE LastOf(CallsOf("setStreamingText", log[Max(Published)].calls)).text
LastImages ==
    IF WithImages = {} THEN EmptyArray
    ELSE ImagesOf(JSONparse(log[Max(WithImages)].buffer))

\* C1: while a stream is decoded, the live list and the list kept for the
\* return both hold exactly one record per tool_call frame the server has
\* sent, in the order of arrival, whatever other frames came in between.
ToolCallsInArrivalOrder ==
    /\ pc = "streaming" =>
           /\ toolCalls = ToolRecords(server.tools)
           /\ streamingToolCalls = ToolRecords(server.tools)
    /\ (pc = "settled" /\ errors = <<>>) =>
           toolCalls = ToolRecords(server.tools)

\* Two tool calls were recorded around a response frame and a line that is
\* no JSON.
TwoToolCallsRecorded ==
    /\ pc = "streaming"
    /\ server.tools = <<1, 2>>
    /\ server.bad = 1
    /\ Len(log) = 1
    /\ toolCalls.kids[2].kids[1] = Str(<<"get_chunk_information">>)

\* What a frame whose buffer parses to p, with a response that is neither
\* empty nor otherwise falsy, publishes as text.
PublishesParsedText(i, p) ==
    (Readable(p) /\ Truthy(Get(p.v, Response))) =>
        /\ CallsOf("setStreamingText", log[i].calls) = <<TextCall(Get(p.v, Response))>>
        /\ log[i].text = Get(p.v, Response)

\* What a frame publishes whose buffer parses to p with citations, no images
\* and such a response.
PublishesOnce(i, p) ==
    (/\ Readable(p) /\ Truthy(Get(p.v, Response))
     /\ NonEmptyList(CitationsOf(p)) /\ EmptyOrAbsent(ImagesOf(p))) =>
        log[i].calls = <<MetadataCall(CitationsOf(p), EmptyArray),
                         TextCall(Get(p.v, Response))>>

\* C2 (amended): a response frame after which the buffer parses with a
\* response that is not empty publishes that value, once, as the whole text
\* on display; and when the parse holds citations and no images, the frame
\* makes exactly two calls: one with the citations, one with the text.
FullParsePublishesResponse ==
    \A i \in 1..Len(log) :
        /\ PublishesParsedText(i, JSONparse(log[i].buffer))
        /\ PublishesOnce(i, JSONparse(log[i].buffer))

\* What C2 says of a frame whose buffer parses to p with a response member.
PublishesAnyParsedText(i, p) ==
    (Readable(p) /\ Get(p.v, Response) # Undefined) =>
        CallsOf("setStreamingText", log[i].calls) = <<TextCall(Get(p.v, Response))>>

\* C2 (as stated): a response frame after which the buffer parses with a
\* response member publishes the value of that member as the text.
FullParsePublishesAnyResponse ==
    \A i \in 1..Len(log) : PublishesAnyParsedText(i, JSONparse(log[i].buffer))

\* The document with citations a, b, no images and the text hello came in one
\* frame, which made the two calls, and the blank that followed made the
\* decoder publish the text again: the text on display is still hello.
HelloPublishedOnce ==
    /\ Len(log) = 2
    /\ log[1].buffer = Slice(1, 0, 2)
    /\ log[1].calls = <<MetadataCall(Arr(<<Str(<<"a">>), Str(<<"b">>)>>), EmptyArray),
                        TextCall(Str(<<"hel", "lo">>))>>
    /\ log[2].buffer = Slice(1, 0, 3)
    /\ log[2].text = Str(<<"hel", "lo">>)

\* What the store holds of citations after a frame whose buffer parses to p.
LatchHolds(i, p) ==
    Readable(p) =>
        IF NonEmptyList(CitationsOf(p))
        THEN log[i].after.citations = CitationsOf(p)
        ELSE log[i].after.citations = log[i].before.citations

\* C3: a response frame after which the buffer parses with no citations, or
\* with an empty list of them, leaves the citations of the store as they
\* were, also when it brings images; one that parses with a non-empty list
\* of citations leaves that list in the store.
CitationLatch ==
    \A i \in 1..Len(log) : LatchHolds(i, JSONparse(log[i].buffer))

\* The store held citations, and a frame that parsed with images and an
\* empty list of citations published the images beside the citations held.
CitationsKeptBesideImages ==
    \E i \in 1..Len(log) :
        /\ NonEmptyList(log[i].before.citations)
        /\ log[i].buffer = Cat(DocImages)
        /\ log[i].after = [citations |-> log[i].before.citations,
                           images |-> Arr(<<Str(<<"i">>)>>)]

\* What C4 says of the images of the store after a frame whose buffer parses
\* to p.
ImagesKept(i, p) ==
    /\ NonEmptyList(log[i].before.images) => NonEmptyList(log[i].after.images)
    /\ (/\ Readable(p) /\ NonEmptyList(CitationsOf(p))
        /\ EmptyOrAbsent(ImagesOf(p))) =>
           log[i].after.images = log[i].before.images

\* C4 (as stated): no response frame empties a non-empty list of images in
\* the store, and a frame that parses with citations and no images publishes
\* the citations beside the images the store held.
ImagesNeverEmptied ==
    \A i \in 1..Len(log) : ImagesKept(i, JSONparse(log[i].buffer))

\* C5: a pass of the read loop that brought nothing but a line that is no
\* JSON changes nothing of the text, the metadata, the buffer and the tool
\* calls, and leaves the decoder reading; and after every pass the buffer
\* holds all the content and the list all the tool calls of the valid frames
\* sent so far, whatever invalid lines came between them.
InvalidLineSkipped ==
    [][(pc = "streaming" /\ server' # server) =>
          /\ pc' = "streaming"
          /\ accumulatedContent' = Slice(server'.doc, 0, server'.sent)
          /\ toolCalls' = ToolRecords(server'.tools)
          /\ Len(log') >= Len(log)
          /\ (/\ server'.bad = server.bad + 1
              /\ server'.sent = server.sent
              /\ server'.tools = server.tools) =>
                 /\ UNCHANGED <<streamingText, metadata, accumulatedContent,
                                toolCalls, streamingToolCalls, result,
                                responseImages, log>>
                 /\ warnings' = warnings + 1]_vars

\* A line that is no JSON came between two response frames, and the frame
\* after it was decoded and published.
FrameDecodedAfterInvalidLine ==
    /\ pc = "streaming"
    /\ \E i \in 2..Len(log) :
          /\ log[i - 1].warnings = 0
          /\ log[i].warnings = 1
          /\ log[i].calls # <<>>
          /\ log[i].buffer = Slice(server.doc, 0, server.sent)

\* C6: when the response has no body, the send settles with the error of
\* the missing reader, one notification and no assistant message, and
\* without a frame read or a text, metadata or tool call published.
NoBodyFailsAtOnce ==
    (pc = "settled" /\ errors = <<"Failed to get reader">>) =>
        /\ log = <<>> /\ warnings = 0 /\ server = NoStream
        /\ accumulatedContent = <<>> /\ result = EmptyString
        /\ toolCalls = EmptyArray /\ streamingToolCalls = EmptyArray
        /\ streamingText = EmptyString /\ metadata = EmptyMetadata
        /\ toasts = <<ToastText>>
        /\ Len(messages) = 1 /\ messages[1].role = "user"
        /\ ~isLoading

\* The send of a message settled on a response without a body.
SettledWithoutBody ==
    /\ pc = "settled"
    /\ errors = <<"Failed to get reader">>
    /\ messages = <<UserMessage(Str(<<"hi">>))>>

\* What a frame publishes whose buffer has the parse p and the match m.
PublishesNothing(i, p, m) ==
    (~p.ok /\ ~m.found) =>
        /\ log[i].calls = <<>>
        /\ log[i].after = log[i].before
        /\ log[i].text = TextBefore(i)

\* C7: a response frame after which the buffer neither parses nor matches
\* the pattern of the fallback makes no call, and leaves the metadata and
\* the text on display as they were.
UnreadableBufferPublishesNothing ==
    \A i \in 1..Len(log) :
        PublishesNothing(i, JSONparse(log[i].buffer),
                         ResponseMatch(log[i].buffer))

\* The buffer cut in the middle of the key published nothing, and the frame
\* after it was decoded and published.
CutInKeyPublishedNothing ==
    /\ Len(log) >= 2
    /\ log[1].buffer = <<LB, Q, "respon">>
    /\ log[1].calls = <<>>
    /\ log[2].calls # <<>>

\* What a frame publishes whose buffer is cut in the response value, raw
\* being what it holds of the value.
PublishesRaw(i, raw) ==
    (\A n \in 1..Len(raw) : raw[n] # BS) =>
        /\ log[i].text = Str(raw)
        /\ log[i].calls = IF raw = <<>> THEN <<>> ELSE <<TextCall(Str(raw))>>

\* C8: a response frame after which the buffer is a document cut inside the
\* response value, with no backslash in what it holds of the value, leaves
\* exactly those characters on display, published in one call.
TruncatedResponsePublished ==
    \A i \in 1..Len(log) :
        \A k \in CutIn(log[i].buffer) : PublishesRaw(i, RawFrom(log[i].buffer, k))

\* The buffer cut after "partial tex" published partial tex.
PartialTexPublished ==
    \E i \in 1..Len(log) :
        /\ log[i].buffer = Slice(2, 0, 2)
        /\ CutIn(log[i].buffer) # {}
        /\ log[i].calls = <<TextCall(Str(<<"partial", SP, "tex">>))>>

\* What a frame publishes whose buffer is cut in the response value, raw
\* being what it holds of the value.
PublishesBare(i, raw) ==
    raw # <<>> => log[i].calls = <<TextCall(Str(Bare(raw)))>>

\* What the frame j that closes the document of frame i publishes, q being
\* the parse of the value between quotes.
PublishesDecoded(i, j, q) ==
    (log[j].buffer = Closed(log[i].buffer) /\ Truthy(q.v)) =>
        log[j].text = q.v

\* C9: a response frame after which the buffer is a document cut inside the
\* response value publishes what it holds of the value without the backslash
\* of each escaped pair; the frame that closes the document publishes the
\* value as JSON decodes it.
FallbackDropsBackslashes ==
    \A i \in 1..Len(log) :
        \A k \in CutIn(log[i].buffer) :
            /\ PublishesBare(i, RawFrom(log[i].buffer, k))
            /\ \A j \in (i + 1)..Len(log) :
                  PublishesDecoded(i, j,
                      JSONparse(<<Q>> \o RawFrom(log[i].buffer, k) \o <<Q>>))

\* The buffer cut after line1\nline2 published line1nline2, and the frame
\* that closed the document published the two lines.
EscapePublishedBothWays ==
    /\ Len(log) >= 2
    /\ log[Len(log) - 1].buffer = Slice(3, 0, 2)
    /\ log[Len(log) - 1].text = Str(<<"line1", "n", "line2">>)
    /\ log[Len(log)].buffer = Slice(3, 0, 3)
    /\ log[Len(log)].text = Str(<<"line1", LF, "line2">>)

\* C10: when the stream has ended, the text returned is the last one
\* published (the empty string if none was), the images returned are the
\* last non-empty list a parse of the buffer held (the empty list if none
\* did), and the tool calls returned are those of the tool_call frames, in
\* order.
ReturnsLastPublished ==
    (pc = "settled" /\ errors = <<>>) =>
        /\ result = LastText
        /\ responseImages = LastImages
        /\ toolCalls = ToolRecords(server.tools)
        /\ messages[Len(messages)].content = LastText
        /\ messages[Len(messages)].images = LastImages

\* A stream with two tool calls, a text and images has ended.
ReturnedTextImagesAndCalls ==
    /\ pc = "settled" /\ errors = <<>>
    /\ server.tools = <<1, 2>>
    /\ result = Str(<<"b">>)
    /\ responseImages = Arr(<<Str(<<"j">>)>>)
    /\ messages[2].toolCalls = ToolRecords(<<1, 2>>)

(***************************************************************************)
(* Citation markers: the code component of parseMessageContent, the        *)
(* Citation component and the store's hovered segment                      *)
(***************************************************************************)
DigitSymbols == <<"0", "1", "2", "3", "4", "5", "6", "7", "8", "9">>
IsDigit(c) == \E i \in 1..Len(DigitSymbols) : DigitSymbols[i] = c
DigitValue(c) == (CHOOSE i \in 1..Len(DigitSymbols) : DigitSymbols[i] = c) - 1

\* s.split(sep), for a separator of one character.
SplitAt(s, sep) ==
    LET breaks == {i \in 1..Len(s) : s[i] = sep}
        n == Cardinality(breaks)
        Break(k) == CHOOSE b \in breaks : Cardinality({x \in breaks : x <= b}) = k
    IN  [k \in 1..(n + 1) |->
            SubSeq(s, IF k = 1 THEN 1 ELSE Break(k - 1) + 1,
                      IF k = n + 1 THEN Len(s) ELSE Break(k) - 1)]

\* s.trim()
Trim(s) ==
    IF ~NotBlank(s) THEN <<>>
    ELSE SubSeq(s, Min({i \in 1..Len(s) : s[i] \notin Whitespace}),
                   Max({i \in 1..Len(s) : s[i] \notin Whitespace}))

\* The decimal value of the first n digits of s.
RECURSIVE DecimalValue(_, _)
DecimalValue(s, n) ==
    IF n = 0 THEN 0 ELSE 10 * DecimalValue(s, n - 1) + DigitValue(s[n])

\* parseInt(s, 10) of a text that starts with a digit: the value of its
\* leading run of digits.  (The match below lets no other text through.)
ParseInt(s) ==
    DecimalValue(s, Max({n \in 1..Len(s) : \A i \in 1..n : IsDigit(s[i])}))

\* value.replace(/\n$/, '')
DropFinalNewline(value) ==
    IF Len(value) > 0 /\ value[Len(value)] = LF
    THEN SubSeq(value, 1, Len(value) - 1) ELSE value

\* \d+ matches the whole of s
AllDigits(s) == Len(s) > 0 /\ \A i \in 1..Len(s) : IsDigit(s[i])

\* \s*\d+ matches the whole of s
SpacedDigits(s) ==
    \E k \in 0..Len(s) :
        /\ \A i \in 1..k : s[i] \in Whitespace
        /\ AllDigits(SubSeq(s, k + 1, Len(s)))

\* The group of the marker pattern, cut at its commas.
Pieces(value) == SplitAt(SubSeq(value, 2, Len(value) - 1), CM)

\* value.match(/^\[(\d+(?:,\s*\d+)*)\]$/): neither a digit nor white space
\* is a comma, so the group matches exactly when its pieces between commas
\* are a run of digits followed by runs of digits behind optional space.
CitationMatch(value) ==
    /\ Len(value) >= 3
    /\ value[1] = LK
    /\ value[Len(value)] = RK
    /\ \A i \in 1..Len(Pieces(value)) :
          IF i = 1 THEN AllDigits(Pieces(value)[i])
          ELSE SpacedDigits(Pieces(value)[i])

\* citationMatch[1].split(',').map((num) => parseInt(num.trim(), 10))
Numbers(value) ==
    [i \in 1..Len(Pieces(value)) |-> ParseInt(Trim(Pieces(value)[i]))]

\* The counts of the Citation components the code component renders for an
\* inline code span of the given text: none when the text is no marker.
CitationCounts(text) ==
    IF CitationMatch(DropFinalNewline(text))
    THEN Numbers(DropFinalNewline(text)) ELSE <<>>

\* list[index] of JavaScript, for the values the store's citations can be.
ElementAt(list, index) ==
    IF list.t = "array" /\ index >= 0 /\ index < Len(list.kids)
    THEN list.kids[index + 1] ELSE Undefined

\* const chunkId = metadata.citations[count - 1]
ChunkIdOf(md, count) == ElementAt(md.citations, count - 1)

\* A variant of SetHoveredChunkId that stores the id as it is given.
SetHoveredChunkIdMutant(id) == id

\* setHoveredChunkId of the store: the value hoveredChunkId takes.
SetHoveredChunkId(id) == IF Truthy(id) THEN id ELSE Null

\* A variant of HandleClick without the test of chunkId.
HandleClickMutant(hovered, chunkId) ==
    IF hovered = chunkId THEN SetHoveredChunkId(Null)
    ELSE SetHoveredChunkId(chunkId)

\* handleClick of Citation: the value hoveredChunkId has after it.
HandleClick(hovered, chunkId) ==
    IF Truthy(chunkId)
    THEN IF hovered = chunkId THEN SetHoveredChunkId(Null)
         ELSE SetHoveredChunkId(chunkId)
    ELSE hovered

\* What a citation list can hold: ids of segments, and the empty string.
CitationEntries == {Str(<<"s1">>), Str(<<"s3">>), EmptyString}

MaxCitations == 2

CitationLists ==
    UNION {[1..n -> CitationEntries] : n \in 0..MaxCitations}

\* The texts of the inline code spans a message may hold.
CodeSpans ==
    { <<LK, "1", RK>>, <<LK, "2", RK>>, <<LK, "3", RK>>, <<LK, "0", RK>>,
      <<LK, "0", "1", RK>>, <<LK, "1", "2", RK>>,
      <<LK, "1", CM, SP, "2", RK>>, <<LK, "2", CM, "3", RK, LF>>,
      <<LK, "2", CM, SP, SP, "1", CM, "0", RK>>,
      <<LK, SP, "1", RK>>, <<LK, "1", CM, RK>>, <<LK, "a", RK>>,
      <<"1">>, <<LK, "1">>, <<LK, RK>>, <<LK, "1", RK, SP>> }

\* A message is rendered: the code component runs on one of its code spans.
RenderCode ==
    /\ \E text \in CodeSpans : citationCounts' = CitationCounts(text)
    /\ UNCHANGED <<chatVars, storeVars, lastClick, outsideCitation>>

\* The i-th marker on display is clicked: handleClick of its Citation.
ClickCitation ==
    /\ \E i \in 1..Len(citationCounts) :
         /\ lastClick' = [count |-> citationCounts[i],
                          chunkId |-> ChunkIdOf(metadata, citationCounts[i]),
                          before |-> hoveredChunkId,
                          threw |-> Throws(metadata.citations),
                          clicked |-> TRUE]
         /\ hoveredChunkId' =
               HandleClick(hoveredChunkId,
                           ChunkIdOf(metadata, citationCounts[i]))
    /\ UNCHANGED <<chatVars, showAllBboxes, citationCounts, outsideCitation>>

\* setMetadata of the store, as the decoder calls it with a citation list.
SetCitations ==
    /\ \E list \in CitationLists :
         metadata' = [citations |-> Arr(list), images |-> EmptyArray]
    /\ lastClick' = NoClick
    /\ UNCHANGED <<messages, inputMessage, isLoading, streamingText,
                   streamingToolCalls, pc, result, responseImages,
                   accumulatedContent, toolCalls, toasts, errors, warnings,
                   server, log>>
    /\ UNCHANGED <<storeVars, citationCounts, outsideCitation>>

\* onToggle of the BboxToggle: setShowAllBboxes of the store.
ToggleShowAll ==
    /\ showAllBboxes' = ~showAllBboxes
    /\ UNCHANGED <<chatVars, hoveredChunkId, citationVars, outsideCitation>>

NextCitation ==
    \/ RenderCode
    \/ ClickCitation
    \/ SetCitations
    \/ ToggleShowAll

\* The markers of a rendered message, and the store they read and write.
SpecCitation == Init /\ [][NextCitation]_vars

\* A click on a marker is being handled.
Clicked ==
    /\ lastClick'.clicked
    /\ lastClick' # lastClick \/ hoveredChunkId' # hoveredChunkId

InRange(count, list) ==
    list.t = "array" /\ count >= 1 /\ count <= Len(list.kids)

\* C11: a marker numbered n reads entry n-1 of the citation list the store
\* holds; when n is below 1 or above the length of the list it reads no
\* segment id, and a click on it does not throw and leaves the hovered
\* segment id as it was.
MarkerReadsItsEntry ==
    [][Clicked =>
         IF InRange(lastClick'.count, metadata.citations)
         THEN lastClick'.chunkId = metadata.citations.kids[lastClick'.count]
         ELSE /\ lastClick'.chunkId = Undefined
              /\ ~lastClick'.threw
              /\ hoveredChunkId' = hoveredChunkId]_vars

\* A marker numbered above the length of a list that is not empty was
\* clicked while a segment was hovered, and the segment still is.
OutOfRangeMarkerClicked ==
    /\ lastClick.clicked
    /\ Len(metadata.citations.kids) > 0
    /\ lastClick.count > Len(metadata.citations.kids)
    /\ lastClick.before # Null
    /\ hoveredChunkId = lastClick.before

(***************************************************************************)
(* Bounding boxes: BoundingBoxDisplay, which selects the segments to draw  *)
(* and projects each onto the page element it lies on                      *)
(***************************************************************************)
\* Exact fractions n/d with d > 0, in lowest terms.  The geometry below is
\* chosen so that every quotient is a multiple of a power of two, for which
\* the floating-point arithmetic of the code is exact as well.
Abs(x) == IF x < 0 THEN 0 - x ELSE x

RECURSIVE GCD(_, _)
GCD(a, b) == IF b = 0 THEN a ELSE GCD(b, a % b)

Lowest(n, d, g) == [n |-> n \div g, d |-> d \div g]
Rat(n, d) == Lowest(n, d, GCD(Abs(n), d))
OfInt(i) == Rat(i, 1)
RatMul(a, b) == Rat(a.n * b.n, a.d * b.d)
RatAdd(a, b) == Rat(a.n * b.d + b.n * a.d, a.d * b.d)
\* a / b for b > 0
RatDiv(a, b) == Rat(a.n * b.d, a.d * b.n)

\* `${x}px`
Px(x) == [unit |-> "px", value |-> x]

\* A segment of a chunk, with the fields the display reads.
Segment(id, page, top, left, width, height) ==
    [segment_id |-> Str(id), page_number |-> page, page_width |-> 600,
     page_height |-> 800, segment_type |-> "Text",
     bbox |-> [top |-> top, left |-> left, width |-> width, height |-> height]]

\* The chunks of the document on display: two chunks, three segments on
\* two pages.
Chunks ==
    << [segments |-> << Segment(<<"s1">>, 1, 100, 50, 200, 30),
                        Segment(<<"s2">>, 1, 400, 300, 120, 60) >>],
       [segments |-> << Segment(<<"s3">>, 2, 0, 300, 300, 80) >>] >>

\* One entry of allBboxes.
BoxOf(segment) ==
    [bbox |-> [top |-> segment.bbox.top, left |-> segment.bbox.left,
               width |-> segment.bbox.width, height |-> segment.bbox.height,
               page_number |-> segment.page_number],
     id |-> segment.segment_id,
     page_width |-> segment.page_width,
     page_height |-> segment.page_height,
     segment_type |-> segment.segment_type]

\* bboxes: the segments of all the chunks, in order.
RECURSIVE Bboxes(_, _)
Bboxes(chunks, i) ==
    IF i > Len(chunks) THEN <<>>
    ELSE [k \in 1..Len(chunks[i].segments) |-> BoxOf(chunks[i].segments[k])]
         \o Bboxes(chunks, i + 1)

\* A variant of VisibleBboxes that shows every box while none is hovered.
VisibleBboxesMutant(all, hovered, showAll) ==
    IF showAll \/ ~Truthy(hovered) THEN all
    ELSE SelectSeq(all, LAMBDA box : box.id = hovered)

\* visibleBboxes
VisibleBboxes(all, hovered, showAll) ==
    IF showAll THEN all
    ELSE SelectSeq(all, LAMBDA box : Truthy(hovered) /\ box.id = hovered)

\* A page element: its data-page-number, its getBoundingClientRect(), and
\* the rect of the wrapper closest() finds around it, if there is one.
Rect(left, top, width, height) ==
    [left |-> left, top |-> top, width |-> width, height |-> height]
NoRect == [left |-> 0, top |-> 0, width |-> 0, height |-> 0]
Element(page, rect, wrapped, wrapper) ==
    [page |-> page, rect |-> rect, wrapped |-> wrapped, wrapper |-> wrapper]
NoElement == Element(0, NoRect, FALSE, NoRect)

\* A variant of QuerySelector that settles for the first page element.
QuerySelectorMutant(elements, pageNumber) ==
    IF elements = <<>> THEN NoElement ELSE elements[1]

\* document.querySelector(`[data-page-number="${pageNumber}"]`): the first
\* element in document order that carries the page number.
QuerySelector(elements, pageNumber) ==
    IF \E i \in 1..Len(elements) : elements[i].page = pageNumber
    THEN elements[Min({i \in 1..Len(elements) : elements[i].page = pageNumber})]
    ELSE NoElement

NullStyle == [null |-> TRUE]

\* scaleX = pageRect.width / originalPageWidth
ScaleX(box, el) == RatDiv(OfInt(el.rect.width), OfInt(box.page_width))

\* scaleY = pageRect.height / originalPageHeight
ScaleY(box, el) == RatDiv(OfInt(el.rect.height), OfInt(box.page_height))

\* A variant of Project that leaves the offsets of the box unscaled.
ProjectMutant(box, el) ==
    [null |-> FALSE,
     width |-> Px(RatMul(OfInt(box.bbox.width), ScaleX(box, el))),
     height |-> Px(RatMul(OfInt(box.bbox.height), ScaleY(box, el))),
     left |-> Px(RatAdd(OfInt(el.rect.left - el.wrapper.left),
                        OfInt(box.bbox.left))),
     top |-> Px(RatAdd(OfInt(el.rect.top - el.wrapper.top),
                       OfInt(box.bbox.top)))]

\* The style getBoundingBoxStyle returns for a box whose page element and
\* wrapper it found.
Project(box, el) ==
    [null |-> FALSE,
     width |-> Px(RatMul(OfInt(box.bbox.width), ScaleX(box, el))),
     height |-> Px(RatMul(OfInt(box.bbox.height), ScaleY(box, el))),
     left |-> Px(RatAdd(OfInt(el.rect.left - el.wrapper.left),
                        RatMul(OfInt(box.bbox.left), ScaleX(box, el)))),
     top |-> Px(RatAdd(OfInt(el.rect.top - el.wrapper.top),
                       RatMul(OfInt(box.bbox.top), ScaleY(box, el))))]

\* The rest of getBoundingBoxStyle, given what querySelector returned.
StyleOn(box, el) ==
    IF el = NoElement THEN NullStyle
    ELSE IF ~el.wrapped THEN NullStyle
    ELSE Project(box, el)

\* getBoundingBoxStyle
GetBoundingBoxStyle(box, elements) ==
    StyleOn(box, QuerySelector(elements, box.bbox.page_number))

\* The boxes BoundingBoxDisplay returns: one per visible box whose style is
\* not null, keyed by id and index.
Drawn(visible, elements) ==
    SelectSeq([i \in 1..Len(visible) |->
                  [box |-> visible[i], index |-> i - 1,
                   style |-> GetBoundingBoxStyle(visible[i], elements)]],
              LAMBDA d : ~d.style.null)

\* The page elements the document can hold: none before the PDF has loaded;
\* both pages at half size, the wrapper at the origin; both pages at three
\* quarters of their size, scrolled; page 1 alone, when the PDF on display
\* has one page; and a page element that lies outside the viewer's wrapper.
Doms ==
    { <<>>,
      << Element(1, Rect(10, 20, 300, 400), TRUE, Rect(0, 0, 320, 840)),
         Element(2, Rect(10, 420, 300, 400), TRUE, Rect(0, 0, 320, 840)) >>,
      << Element(1, Rect(40, 0 - 300, 450, 600), TRUE, Rect(16, 0 - 300, 500, 1200)),
         Element(2, Rect(40, 300, 450, 600), TRUE, Rect(16, 0 - 300, 500, 1200)) >>,
      << Element(1, Rect(0, 0, 600, 800), TRUE, Rect(0, 0, 600, 800)) >>,
      << Element(1, Rect(10, 20, 300, 400), FALSE, NoRect),
         Element(2, Rect(10, 420, 300, 400), TRUE, Rect(0, 0, 320, 840)) >> }

\* The ids the store's hovered segment can take: those of the segments, and
\* one that no segment has.
HoverIds == {Str(<<"s1">>), Str(<<"s2">>), Str(<<"s3">>), Str(<<"zz">>), Null}

\* setHoveredChunkId of the store
HoverSegment ==
    /\ \E id \in HoverIds : hoveredChunkId' = SetHoveredChunkId(id)
    /\ UNCHANGED <<chatVars, showAllBboxes, boxVars, outsideBoxes>>

\* The document loads, the pane is resized or scrolled: the page elements
\* change.
Layout ==
    /\ \E elements \in Doms : dom' = elements
    /\ UNCHANGED <<chatVars, storeVars, display, outsideBoxes>>

\* BoundingBoxDisplay renders.
RenderBoxes ==
    /\ display' =
         [hovered |-> hoveredChunkId, showAll |-> showAllBboxes, dom |-> dom,
          selected |-> VisibleBboxes(Bboxes(Chunks, 1), hoveredChunkId,
                                     showAllBboxes),
          rendered |-> Drawn(VisibleBboxes(Bboxes(Chunks, 1), hoveredChunkId,
                                           showAllBboxes), dom),
          done |-> TRUE]
    /\ UNCHANGED <<chatVars, storeVars, dom, outsideBoxes>>

NextBoxes ==
    \/ HoverSegment
    \/ ToggleShowAll
    \/ Layout
    \/ RenderBoxes

\* The boxes over the pages, the store and the page elements they read.
SpecBoxes == Init /\ [][NextBoxes]_vars

\* The ids of the segments of all the chunks.
SegmentIds ==
    UNION {{Chunks[c].segments[k].segment_id :
               k \in 1..Len(Chunks[c].segments)} : c \in 1..Len(Chunks)}

SelectedIds == {display.selected[i].id : i \in 1..Len(display.selected)}

\* C19: the segments selected for drawing follow from the show-all flag and
\* the hovered id alone: every segment of every chunk when the flag is on;
\* with the flag off exactly the segments whose id is the hovered id, and
\* none when the hovered id is null.
SelectionFollowsStore ==
    display.done =>
        IF display.showAll
        THEN /\ SelectedIds = SegmentIds
             /\ Len(display.selected) = Cardinality(SegmentIds)
        ELSE /\ SelectedIds = {id \in SegmentIds : id = display.hovered}
             /\ Len(display.selected) = Cardinality(SelectedIds)
             /\ display.hovered = Null => display.selected = <<>>

\* With the flag off and segment s2 hovered, exactly that segment was
\* selected.
HoveredSegmentSelected ==
    /\ display.done
    /\ ~display.showAll
    /\ display.hovered = Str(<<"s2">>)
    /\ Len(display.selected) = 1
    /\ display.selected[1].id = Str(<<"s2">>)

\* The style is the projection of the box onto the element: the equations
\* of the projection, multiplied out so that no quotient is taken.
ProjectsOnto(style, box, el) ==
    /\ style.left.value.n * box.page_width =
          style.left.value.d * ((el.rect.left - el.wrapper.left) * box.page_width
                                + box.bbox.left * el.rect.width)
    /\ style.top.value.n * box.page_height =
          style.top.value.d * ((el.rect.top - el.wrapper.top) * box.page_height
                               + box.bbox.top * el.rect.height)
    /\ style.width.value.n * box.page_width =
          style.width.value.d * (box.bbox.width * el.rect.width)
    /\ style.height.value.n * box.page_height =
          style.height.value.d * (box.bbox.height * el.rect.height)

\* The page of the box has no element, or its first element has no wrapper
\* to measure it against.
Unmeasurable(box, elements) ==
    \/ \A e \in 1..Len(elements) : elements[e].page # box.bbox.page_number
    \/ \E e \in 1..Len(elements) :
          /\ elements[e].page = box.bbox.page_number
          /\ \A f \in 1..(e - 1) : elements[f].page # box.bbox.page_number
          /\ ~elements[e].wrapped

IsDrawn(i) ==
    \E j \in 1..Len(display.rendered) : display.rendered[j].index = i - 1

\* C12: a selected segment whose page element is not mounted, or cannot be
\* measured against its wrapper, gets no box; and every box that is drawn
\* has the geometry of a mounted, measured element of the segment's own
\* page.
UnmountedPageDrawsNothing ==
    display.done =>
        /\ \A i \in 1..Len(display.selected) :
              Unmeasurable(display.selected[i], display.dom) => ~IsDrawn(i)
        /\ \A j \in 1..Len(display.rendered) :
              \E e \in 1..Len(display.dom) :
                 /\ display.dom[e].page = display.rendered[j].box.bbox.page_number
                 /\ display.dom[e].wrapped
                 /\ ProjectsOnto(display.rendered[j].style,
                                 display.rendered[j].box, display.dom[e])

\* All three segments were selected while only page 1 was mounted, and the
\* two on page 1 were drawn.
OnlyMountedPageDrawn ==
    /\ display.done
    /\ Len(display.dom) = 1
    /\ Len(display.selected) = 3
    /\ Len(display.rendered) = 2
    /\ \A j \in 1..2 : display.rendered[j].box.bbox.page_number = 1

\* The case worked in the specification: a segment at top 100, left 50, 200
\* wide and 30 high on a page of 600 by 800, the page shown 300 by 400 at
\* (10, 20) from the wrapper's corner.
IsExample(box, el) ==
    /\ box.bbox = [top |-> 100, left |-> 50, width |-> 200, height |-> 30,
                   page_number |-> box.bbox.page_number]
    /\ box.page_width = 600 /\ box.page_height = 800
    /\ el.rect.width = 300 /\ el.rect.height = 400
    /\ el.rect.left - el.wrapper.left = 10
    /\ el.rect.top - el.wrapper.top = 20

ExampleStyle(style) ==
    /\ style.left = [unit |-> "px", value |-> [n |-> 35, d |-> 1]]
    /\ style.top = [unit |-> "px", value |-> [n |-> 70, d |-> 1]]
    /\ style.width = [unit |-> "px", value |-> [n |-> 100, d |-> 1]]
    /\ style.height = [unit |-> "px", value |-> [n |-> 15, d |-> 1]]

\* C13: a drawn box lies at the page's offset plus the segment's offset
\* scaled, and has the segment's size scaled, the scale being the on-screen
\* size of the page over its own size, axis by axis; in the worked case
\* that is left 35, top 70, width 100, height 15.
BoxIsSegmentScaled ==
    display.done =>
        \A j \in 1..Len(display.rendered) :
            /\ ProjectsOnto(display.rendered[j].style, display.rendered[j].box,
                            QuerySelector(display.dom,
                                display.rendered[j].box.bbox.page_number))
            /\ IsExample(display.rendered[j].box,
                         QuerySelector(display.dom,
                             display.rendered[j].box.bbox.page_number))
                  => ExampleStyle(display.rendered[j].style)

\* The worked case was drawn, with the style the specification gives.
ExampleDrawn ==
    /\ display.done
    /\ \E j \in 1..Len(display.rendered) :
          /\ IsExample(display.rendered[j].box,
                       QuerySelector(display.dom,
                           display.rendered[j].box.bbox.page_number))
          /\ ExampleStyle(display.rendered[j].style)

(***************************************************************************)
(* The PDF viewer: usePDFViewer, which scrolls to the hovered segment      *)
(* after a delay, and PDFViewerComponent, which follows the width of its   *)
(* pane after a delay                                                      *)
(***************************************************************************)
\* The delay of the scroll timer and the wait of the width debounce, in ms.
ScrollDelay == 300
ResizeWait == 200

\* The clock moves in thirds of the scroll delay, MaxTicks times at most.
Quantum == ScrollDelay \div 3
MaxTicks == 5

\* The timers one viewer may start.
MaxTimers == 3

\* The timers of the browser: setTimeout adds one, clearTimeout removes it,
\* and one that has run is gone.  `no` is the number of scroll requests made
\* when the timer was started.
Timer(id, kind, due, arg, no) ==
    [id |-> id, kind |-> kind, due |-> due, arg |-> arg, no |-> no]

\* clearTimeout(id)
ClearTimeout(table, id) == {t \in table : t.id # id}

\* `if (scrollTimeoutRef.current) clearTimeout(scrollTimeoutRef.current)`
ClearPending(table, ref) ==
    IF ref # 0 THEN ClearTimeout(table, ref) ELSE table

\* A variant of Rescheduled that leaves the pending timer in place.
RescheduledMutant(table, ref, id, page, at, no) ==
    table \cup {Timer(id, "scroll", at + ScrollDelay, page, no)}

\* scrollToPage: the timers after it has cleared the pending one and started
\* its own.
Rescheduled(table, ref, id, page, at, no) ==
    ClearPending(table, ref)
    \cup {Timer(id, "scroll", at + ScrollDelay, page, no)}

\* debounce(..., 200) called: the invocation moves to 200 ms from now.
Debounced(table, ref, id, width, at) ==
    ClearPending(table, ref)
    \cup {Timer(id, "resize", at + ResizeWait, width, 0)}

\* A variant of CleanedUp that clears nothing.
CleanedUpMutant(table, scrollRef, debounceRef) == table

\* The cleanups of the two effects at unmount: clearTimeout of the scroll
\* timer, cancel() of the debounce.
CleanedUp(table, scrollRef, debounceRef) ==
    ClearPending(ClearPending(table, scrollRef), debounceRef)

\* bboxes.find((box) => box.id === hoveredChunkId)?.bbox.page_number, or 0
TargetPage(all, hovered) ==
    IF \E i \in 1..Len(all) : all[i].id = hovered
    THEN all[Min({i \in 1..Len(all) : all[i].id = hovered})].bbox.page_number
    ELSE 0

\* hoveredChunkId ? bboxes.find(id and page match) : null, as the indices
\* of the boxes that match
Matching(all, hovered, page) ==
    IF Truthy(hovered)
    THEN {i \in 1..Len(all) :
             all[i].id = hovered /\ all[i].bbox.page_number = page}
    ELSE {}

\* The scroll container's getBoundingClientRect().
ContainerRect == Rect(0, 0, 320, 500)

\* A variant of TargetScrollTop that brings the segment to the very top of
\* the container.
TargetScrollTopMutant(box, el) ==
    RatAdd(OfInt(el.rect.top - el.wrapper.top),
           RatMul(OfInt(el.rect.height),
                  RatDiv(OfInt(box.bbox.top), OfInt(box.page_height))))

\* pageElement.offsetTop + pageRect.height * (bbox.bbox.top / page_height)
\*   - containerRect.height * 0.1
TargetScrollTop(box, el) ==
    RatAdd(RatAdd(OfInt(el.rect.top - el.wrapper.top),
                  RatMul(OfInt(el.rect.height),
                         RatDiv(OfInt(box.bbox.top), OfInt(box.page_height)))),
           RatMul(OfInt(0 - ContainerRect.height), Rat(1, 10)))

\* pageRect.top < containerRect.top || pageRect.bottom > containerRect.bottom
OutOfView(el) ==
    \/ el.rect.top < ContainerRect.top
    \/ el.rect.top + el.rect.height > ContainerRect.top + ContainerRect.height

\* A variant of ScrollOf that positions by the first box of the page,
\* whatever segment is hovered.
ScrollOfMutant(all, hovered, page, el) ==
    IF \E i \in 1..Len(all) : all[i].bbox.page_number = page
    THEN [how |-> "scrollTo",
          top |-> TargetScrollTop(
                      all[Min({i \in 1..Len(all) :
                                  all[i].bbox.page_number = page})], el)]
    ELSE IF OutOfView(el) THEN [how |-> "scrollIntoView", top |-> NoTop]
    ELSE NoScroll

\* The body of the timer's callback once it has its container and its page
\* element: the scroll it performs.
ScrollOf(all, hovered, page, el) ==
    IF Matching(all, hovered, page) # {}
    THEN [how |-> "scrollTo",
          top |-> TargetScrollTop(all[Min(Matching(all, hovered, page))], el)]
    ELSE IF OutOfView(el) THEN [how |-> "scrollIntoView", top |-> NoTop]
    ELSE NoScroll

\* The callback of the scroll timer: nothing unless the container and the
\* page element are there.
Callback(all, hovered, page, elements, isMounted) ==
    IF isMounted /\ QuerySelector(elements, page) # NoElement
    THEN ScrollOf(all, hovered, page, QuerySelector(elements, page))
    ELSE [how |-> "skipped", top |-> NoTop]

\* Math.max(Math.round(entry.contentRect.width - 32), 200)
PaneWidth(contentWidth) == Max({contentWidth - 32, 200})

\* The widths the pane can take.
ContentWidths == {132, 632}

\* The page elements while the viewer scrolls: none before the PDF has
\* loaded, then both pages, page 1 in view and page 2 below the fold, at
\* one width or at a greater one.
ScrollDoms ==
    { <<>>,
      << Element(1, Rect(10, 20, 300, 400), TRUE, Rect(0, 0, 320, 840)),
         Element(2, Rect(10, 420, 300, 400), TRUE, Rect(0, 0, 320, 840)) >>,
      << Element(1, Rect(10, 30, 450, 600), TRUE, Rect(0, 10, 470, 1240)),
         Element(2, Rect(10, 630, 450, 600), TRUE, Rect(0, 10, 470, 1240)) >> }

\* The ids the hovered segment takes while the viewer is watched: a segment
\* of page 1, a segment of page 2, none.
ScrollIds == {Str(<<"s1">>), Str(<<"s3">>), Null}

\* Time passes.
Tick ==
    /\ now < MaxTicks * Quantum
    /\ now' = now + Quantum
    /\ UNCHANGED <<chatVars, storeVars, boxVars, outsideViewer, mounted, timers,
                   scrollTimeoutRef, debounceTimerId, lastTimerId, pageWidth,
                   displayPageWidth, effectsPending, scrollLog>>

\* The hovered segment changes in the store, and, while the viewer is
\* mounted, its effect runs: scrollToPage for the page of the segment, if it
\* has one.
HoverChanges ==
    /\ \E id \in ScrollIds :
         /\ SetHoveredChunkId(id) # hoveredChunkId
         /\ hoveredChunkId' = SetHoveredChunkId(id)
         /\ IF mounted /\ Truthy(id) /\ TargetPage(Bboxes(Chunks, 1), id) # 0
            THEN /\ lastTimerId < MaxTimers
                 /\ lastTimerId' = lastTimerId + 1
                 /\ timers' = Rescheduled(timers, scrollTimeoutRef,
                                  lastTimerId + 1,
                                  TargetPage(Bboxes(Chunks, 1), id), now,
                                  scrollLog.requests + 1)
                 /\ scrollTimeoutRef' = lastTimerId + 1
                 /\ scrollLog' =
                       [scrollLog EXCEPT
                          !.requests = @ + 1,
                          !.served = 0,
                          !.moved = FALSE,
                          !.lastScroll = NoScrollYet,
                          !.lastRequest =
                             [time |-> now,
                              page |-> TargetPage(Bboxes(Chunks, 1), id),
                              id |-> id]]
            ELSE UNCHANGED <<lastTimerId, timers, scrollTimeoutRef, scrollLog>>
    /\ UNCHANGED <<chatVars, showAllBboxes, boxVars, outsideViewer, mounted, now,
                   debounceTimerId, pageWidth, displayPageWidth,
                   effectsPending>>

\* A scroll timer that is due runs its callback.
ScrollTimerFires ==
    /\ \E t \in timers :
         /\ t.kind = "scroll"
         /\ t.due <= now
         /\ timers' = timers \ {t}
         /\ scrollLog' =
               [scrollLog EXCEPT
                  !.served = @ + 1,
                  !.fired = @ + 1,
                  !.lastScroll =
                     [done |-> TRUE, time |-> now, page |-> t.arg,
                      hovered |-> hoveredChunkId, no |-> t.no, dom |-> dom,
                      scroll |-> Callback(Bboxes(Chunks, 1), hoveredChunkId,
                                          t.arg, dom, mounted)]]
    /\ UNCHANGED <<chatVars, storeVars, boxVars, outsideViewer, mounted, now,
                   scrollTimeoutRef, debounceTimerId, lastTimerId, pageWidth,
                   displayPageWidth, effectsPending>>

\* The document loads, or the container scrolls: the page elements change.
PagesMove ==
    /\ mounted
    /\ \E elements \in ScrollDoms :
         /\ elements # dom
         /\ dom' = elements
    /\ scrollLog' = [scrollLog EXCEPT !.moved = TRUE]
    /\ UNCHANGED <<chatVars, storeVars, display, outsideViewer, mounted, now,
                   timers, scrollTimeoutRef, debounceTimerId, lastTimerId,
                   pageWidth, displayPageWidth, effectsPending>>

\* The callback of the ResizeObserver for a width other than pageWidth:
\* setPageWidth, and the debounced setDisplayPageWidth is called.
Resized ==
    /\ mounted
    /\ ~effectsPending
    /\ lastTimerId < MaxTimers
    /\ \E w \in ContentWidths :
         /\ PaneWidth(w) # pageWidth
         /\ pageWidth' = PaneWidth(w)
         /\ timers' = Debounced(timers, debounceTimerId, lastTimerId + 1,
                                PaneWidth(w), now)
    /\ debounceTimerId' = lastTimerId + 1
    /\ lastTimerId' = lastTimerId + 1
    /\ effectsPending' = TRUE
    /\ UNCHANGED <<chatVars, storeVars, boxVars, outsideViewer, mounted, now,
                   scrollTimeoutRef, displayPageWidth, scrollLog>>

\* The render that setPageWidth asked for is committed and its effects run:
\* the effect on pageWidth is cleaned up, which cancels the debounce, and
\* runs again with a new observer; the display width, while still 0, takes
\* the page width.
EffectsRun ==
    /\ mounted
    /\ effectsPending
    /\ effectsPending' = FALSE
    /\ timers' = ClearPending(timers, debounceTimerId)
    /\ debounceTimerId' = 0
    /\ displayPageWidth' =
          IF pageWidth > 0 /\ displayPageWidth = 0 THEN pageWidth
          ELSE displayPageWidth
    /\ UNCHANGED <<chatVars, storeVars, boxVars, outsideViewer, mounted, now,
                   scrollTimeoutRef, lastTimerId, pageWidth, scrollLog>>

\* A variant of ResizeTimerFires that does not wait.
ResizeTimerFiresMutant ==
    /\ \E t \in timers :
         /\ t.kind = "resize"
         /\ timers' = timers \ {t}
         /\ displayPageWidth' = t.arg
    /\ debounceTimerId' = 0
    /\ UNCHANGED <<chatVars, storeVars, boxVars, outsideViewer, mounted, now,
                   scrollTimeoutRef, lastTimerId, pageWidth, effectsPending,
                   scrollLog>>

\* The debounce is due: setDisplayPageWidth(width).
ResizeTimerFires ==
    /\ \E t \in timers :
         /\ t.kind = "resize"
         /\ t.due <= now
         /\ timers' = timers \ {t}
         /\ displayPageWidth' = t.arg
    /\ debounceTimerId' = 0
    /\ UNCHANGED <<chatVars, storeVars, boxVars, outsideViewer, mounted, now,
                   scrollTimeoutRef, lastTimerId, pageWidth, effectsPending,
                   scrollLog>>

\* The viewer is unmounted: the cleanups of its effects run, and its refs
\* are null from here on.
Unmount ==
    /\ mounted
    /\ mounted' = FALSE
    /\ timers' = CleanedUp(timers, scrollTimeoutRef, debounceTimerId)
    /\ effectsPending' = FALSE
    /\ dom' = <<>>
    /\ scrollLog' =
          [scrollLog EXCEPT
             !.atUnmount =
                [done |-> TRUE,
                 scroll |-> \E t \in timers : t.kind = "scroll",
                 resize |-> \E t \in timers : t.kind = "resize",
                 scrollDue |-> Max({0} \cup {t.due : t \in {u \in timers : u.kind = "scroll"}}),
                 resizeDue |-> Max({0} \cup {t.due : t \in {u \in timers : u.kind = "resize"}}),
                 display |-> displayPageWidth]]
    /\ UNCHANGED <<chatVars, storeVars, display, outsideViewer, now,
                   scrollTimeoutRef, debounceTimerId, lastTimerId, pageWidth,
                   displayPageWidth>>

NextViewer ==
    \/ Tick
    \/ HoverChanges
    \/ ScrollTimerFires
    \/ PagesMove
    \/ Resized
    \/ EffectsRun
    \/ ResizeTimerFires
    \/ Unmount

\* One PDF viewer from mount to unmount, and the clock.
SpecViewer == Init /\ [][NextViewer]_vars

ScrollTimers == {t \in timers : t.kind = "scroll"}

NothingFiresAfterUnmount ==
    [][~mounted =>
         /\ timers = {}
         /\ scrollLog'.lastScroll = scrollLog.lastScroll
         /\ scrollLog'.fired = scrollLog.fired
         /\ displayPageWidth' = displayPageWidth]_vars

\* The viewer was unmounted with a scroll timer and a width debounce
\* pending, both are past due, and neither has run.
UnmountedWithBothPending ==
    /\ ~mounted
    /\ scrollLog.atUnmount.scroll
    /\ scrollLog.atUnmount.resize
    /\ now > scrollLog.atUnmount.scrollDue
    /\ now > scrollLog.atUnmount.resizeDue
    /\ displayPageWidth = scrollLog.atUnmount.display
    /\ scrollLog.fired = 0

\* A segment with the id lies on the page.
SegmentOnPage(id, page) ==
    \E c \in 1..Len(Chunks) : \E k \in 1..Len(Chunks[c].segments) :
        /\ Chunks[c].segments[k].segment_id = id
        /\ Chunks[c].segments[k].page_number = page

\* C20: when the scroll timer runs for a page that is mounted, and no
\* segment on that page has the hovered id, the page element is scrolled
\* into view (if it is not in view already) without positioning; when a
\* segment on that page has the hovered id, the positioned scroll of the
\* container is made and not the other.
UnmatchedPageScrollsIntoView ==
    (scrollLog.lastScroll.done /\ scrollLog.lastScroll.scroll.how # "skipped") =>
        IF SegmentOnPage(scrollLog.lastScroll.hovered, scrollLog.lastScroll.page)
        THEN scrollLog.lastScroll.scroll.how = "scrollTo"
        ELSE /\ scrollLog.lastScroll.scroll.how \in {"scrollIntoView", "none"}
             /\ scrollLog.lastScroll.scroll.how = "scrollIntoView" <=>
                   OutOfView(QuerySelector(scrollLog.lastScroll.dom,
                                           scrollLog.lastScroll.page))

\* The timer ran for page 2, below the fold, after the hover had been
\* cleared: the page was scrolled into view.
PageScrolledIntoView ==
    /\ scrollLog.lastScroll.done
    /\ scrollLog.lastScroll.page = 2
    /\ scrollLog.lastScroll.hovered = Null
    /\ scrollLog.lastScroll.scroll.how = "scrollIntoView"

\* The segments with the id on the page.
SegmentsOnPage(id, page) ==
    {seg \in UNION {{Chunks[c].segments[k] : k \in 1..Len(Chunks[c].segments)} :
                       c \in 1..Len(Chunks)} :
        seg.segment_id = id /\ seg.page_number = page}

\* top = offsetTop + (seg.bbox.top / seg.page_height) * height
\*       - containerHeight / 10, over the common denominator
IsTargetOf(top, seg, offsetTop, height, containerHeight) ==
    top.n * (10 * seg.page_height) =
        top.d * (10 * seg.page_height * offsetTop
                 + 10 * seg.bbox.top * height
                 - seg.page_height * containerHeight)

\* C21: the top of a positioned scroll is the offset of the page element in
\* its wrapper, plus the height of the page element times the segment's
\* top over the height of its page, minus a tenth of the height of the
\* container, all as measured when the timer ran.
ScrollTargetFromGeometryAtFire ==
    (scrollLog.lastScroll.done /\ scrollLog.lastScroll.scroll.how = "scrollTo") =>
        \E seg \in SegmentsOnPage(scrollLog.lastScroll.hovered,
                                  scrollLog.lastScroll.page) :
            IsTargetOf(scrollLog.lastScroll.scroll.top, seg,
                       QuerySelector(scrollLog.lastScroll.dom,
                                     scrollLog.lastScroll.page).rect.top
                       - QuerySelector(scrollLog.lastScroll.dom,
                                       scrollLog.lastScroll.page).wrapper.top,
                       QuerySelector(scrollLog.lastScroll.dom,
                                     scrollLog.lastScroll.page).rect.height,
                       ContainerRect.height)

\* The positioned scroll to segment s1 was made on the wider pages, which
\* took the place of others after the request: its top is 20 + 600 / 8 - 50.
ScrolledAfterPagesMoved ==
    /\ scrollLog.lastScroll.done
    /\ scrollLog.moved
    /\ scrollLog.lastScroll.hovered = Str(<<"s1">>)
    /\ scrollLog.lastScroll.scroll = [how |-> "scrollTo", top |-> OfInt(45)]
    /\ QuerySelector(scrollLog.lastScroll.dom, 1).rect.height = 600

ResizeTimers == {t \in timers : t.kind = "resize"}

\* C22: the debounce is called only with a page width that differs from
\* the current one, and the display width changes only when it takes the
\* first page width measured or when the debounce runs, the wait having
\* passed since its last call; so it stays as it is through resizes that
\* follow one another within the wait.
DisplayWidthIsDebounced ==
    [][/\ (ResizeTimers' \ ResizeTimers # {}) => pageWidth' # pageWidth
       /\ Cardinality(ResizeTimers') <= 1
       /\ displayPageWidth' # displayPageWidth =>
             \/ displayPageWidth = 0 /\ displayPageWidth' = pageWidth
             \/ \E t \in ResizeTimers :
                   /\ t.due <= now
                   /\ t.due >= ResizeWait
                   /\ t.arg = displayPageWidth'
                   /\ t \notin timers']_vars

\* The pane was measured at 200 and is displayed so; it has since been
\* resized to 600, the wait has not passed, and the display width is
\* still 200.
ResizeHeldBack ==
    /\ displayPageWidth = 200
    /\ pageWidth = 600
    /\ \E t \in ResizeTimers : t.due > now /\ t.arg = 600

NextResize ==
    \/ Tick
    \/ Resized
    \/ EffectsRun
    \/ ResizeTimerFires
    \/ Unmount

\* The clock goes on, React commits a render it was asked for, and the
\* browser runs a timer that is due.
SpecResize ==
    /\ Init
    /\ [][NextResize]_vars
    /\ WF_vars(Tick)
    /\ WF_vars(EffectsRun)
    /\ WF_vars(ResizeTimerFires)

\* C27: while the viewer is mounted, a display width that differs from the
\* page width comes to equal it.
DisplayWidthCatchesUp ==
    (mounted /\ displayPageWidth # pageWidth)
        ~> (displayPageWidth = pageWidth \/ ~mounted)

IsPrefix(a, b) == Len(a) <= Len(b) /\ SubSeq(b, 1, Len(a)) = a

\* The text that frame i of the log published.
TextOf(i) == LastOf(CallsOf("setStreamingText", log[i].calls)).text

\* The text is read off the buffer b: it is the response of the parse of
\* b, or what stands in b between a quote and either the next quote that
\* closes it or the end of b, without the backslashes of its escapes.
ReadOff(text, b, p) ==
    IF Readable(p) THEN text = Get(p.v, Response)
    ELSE /\ text.t = "string"
         /\ \E k \in {x \in 1..Len(b) : b[x] = Q} :
               \E m \in {x \in k..Len(b) : x = Len(b) \/ b[x + 1] = Q} :
                 text.s = Bare(SubSeq(b, k + 1, m))

\* No backslash stands in b.
NoEscape(b) == \A k \in 1..Len(b) : b[k] # BS

\* C23: the buffer of a stream only grows: a step of the read loop leaves
\* it with something appended or as it was, and so does each frame of the
\* step.  The text that a frame of the step published is read off the
\* buffer as that frame left it; and while the buffer holds no backslash,
\* each text published before is the beginning of that text, and the text
\* the step published last is the beginning of the text returned.
BufferGrowsAndTextsExtend ==
    [][/\ (pc = "streaming" /\ pc' = "streaming") =>
            IsPrefix(accumulatedContent, accumulatedContent')
       /\ \A i \in (Len(log) + 1)..Len(log') :
            /\ IsPrefix(IF i = 1 THEN <<>> ELSE log'[i - 1].buffer,
                        log'[i].buffer)
            /\ i = Len(log') => log'[i].buffer = accumulatedContent'
            /\ i \in Published' =>
                 /\ ReadOff(TextOf(i)', log'[i].buffer,
                            JSONparse(log'[i].buffer))
                 /\ NoEscape(log'[i].buffer) =>
                       /\ \A j \in Published' :
                             j < i => IsPrefix(TextOf(j)'.s, TextOf(i)'.s)
                       /\ i = Len(log') =>
                             /\ result'.t = "string"
                             /\ IsPrefix(TextOf(i)'.s, result'.s)]_vars

\* Two frames have each published a text of an answer without escapes,
\* the second a longer one, which is the text returned.
TwoTextsTheSecondLonger ==
    /\ Cardinality(Published) >= 2
    /\ Len(log) \in Published
    /\ NoEscape(accumulatedContent)
    /\ \E i \in Published :
          /\ Len(TextOf(i).s) > 0
          /\ Len(TextOf(i).s) < Len(TextOf(Len(log)).s)
    /\ result = TextOf(Len(log))

(***************************************************************************)
(* The state of a stream in the view, from the send to the message         *)
(***************************************************************************)
SendBegins == pc = "idle" /\ pc' = "fetching"
StreamEndsWell == pc = "streaming" /\ pc' = "settled" /\ errors' = errors

\* C24: the step that begins a send leaves the streaming text and the
\* streaming tool calls empty and the store's metadata empty, and appends
\* the user's message; the step that ends a stream well appends one
\* assistant message of the text, the images and the tool calls returned,
\* and leaves the streaming text and tool calls empty and the view not
\* loading; no other step changes the list of messages, and outside a send
\* the streaming text and tool calls are empty.
SessionFoldsIntoOneMessage ==
    [][/\ SendBegins =>
            /\ streamingText' = EmptyString
            /\ streamingToolCalls' = EmptyArray
            /\ metadata' = EmptyMetadata
            /\ messages' = Append(messages, UserMessage(inputMessage))
       /\ StreamEndsWell =>
            /\ messages' =
                  Append(messages,
                         [role |-> "assistant", content |-> result,
                          images |-> responseImages,
                          toolCalls |-> IF toolCalls = EmptyArray
                                        THEN Undefined ELSE toolCalls])
            /\ streamingText' = EmptyString
            /\ streamingToolCalls' = EmptyArray
            /\ ~isLoading'
       /\ messages' # messages => SendBegins \/ StreamEndsWell
       /\ pc' \in {"idle", "settled"} =>
            /\ streamingText' = EmptyString
            /\ streamingToolCalls' = EmptyArray]_vars

\* A send has ended well: the view holds the question and one answer with
\* its text, an image and a tool call, and shows nothing of the stream.
StreamFoldedIntoAnswer ==
    /\ pc = "settled" /\ errors = <<>>
    /\ Len(messages) = 2
    /\ messages[2].role = "assistant"
    /\ messages[2].content = result /\ result # EmptyString
    /\ messages[2].images # EmptyArray
    /\ messages[2].toolCalls # Undefined
    /\ streamingText = EmptyString /\ ~isLoading

\* A send of this view is in flight.
InFlight == pc \in {"fetching", "streaming"}

\* C28: a view has one request in flight at most.  While a send is in
\* flight the view is loading; a step taken while a send is in flight or
\* the input is blank issues no request and appends no message of the
\* user; and a step taken while a send is in flight that neither reads the
\* stream nor ends the send leaves the streaming text and the streaming tool
\* calls as they are.
OneRequestInFlight ==
    [][/\ InFlight => isLoading
       /\ (InFlight \/ Blank(inputMessage)) =>
            /\ ~(pc' = "fetching" /\ (pc # "fetching" \/ messages' # messages))
            /\ messages' # messages => StreamEndsWell
       /\ (InFlight /\ server' = server /\ pc' # "settled") =>
            /\ streamingText' = streamingText
            /\ streamingToolCalls' = streamingToolCalls]_vars

\* A send is in flight with a text of the stream on display, and the input
\* still holds the question, so that Enter calls handleSendMessage again.
SendInFlightWithQuestion ==
    /\ pc = "streaming" /\ isLoading
    /\ ~Blank(inputMessage)
    /\ streamingText # EmptyString
    /\ Len(messages) = 1

StoredKey(storage, name) ==
    IF Truthy(storage[name]) THEN storage[name] ELSE EmptyString

\* getApiKeys
GetApiKeys(storage) ==
    [openai |-> StoredKey(storage, "openai_api_key"),
     openrouter |-> StoredKey(storage, "openrouter_api_key"),
     chunkr |-> StoredKey(storage, "chunkr_api_key")]

\* missingKeys of validateApiKeys
MissingKeys(apiKeys) ==
    (IF ~Truthy(apiKeys.openai) THEN <<"OpenAI">> ELSE <<>>)
    \o (IF ~Truthy(apiKeys.openrouter) THEN <<"OpenRouter">> ELSE <<>>)
    \o (IF ~Truthy(apiKeys.chunkr) THEN <<"Chunkr">> ELSE <<>>)

\* validateApiKeys
ValidateApiKeys(storage) ==
    [isValid |-> Len(MissingKeys(GetApiKeys(storage))) = 0,
     missingKeys |-> MissingKeys(GetApiKeys(storage))]

\* names.join(', '), as the pieces of the text
RECURSIVE JoinNames(_)
JoinNames(names) ==
    IF names = <<>> THEN <<>>
    ELSE IF Len(names) = 1 THEN names
    ELSE <<names[1], ", ">> \o JoinNames(Tail(names))

\* `Missing API keys: ${missingKeys.join(', ')}. Please configure them first.`
MissingText(missingKeys) ==
    <<"Missing API keys: ">> \o JoinNames(missingKeys)
    \o <<". Please configure them first.">>

SavedText == <<"Configuration saved successfully!">>
LoadingText == <<"Processing through Chunkr...">>
FailedText == <<"Failed to upload">>
ProcessedText == <<"File processed successfully!">>

\* The notifications the home page may have raised with toast.error and
\* toast.success.
MaxNotices == 2

\* What the key form holds when it is saved: all three keys, none, all but
\* the Chunkr key, the OpenRouter key alone.
KeyForms ==
    { [openai |-> Str(<<"k">>), openrouter |-> Str(<<"k">>), chunkr |-> Str(<<"k">>)],
      [openai |-> EmptyString, openrouter |-> EmptyString, chunkr |-> EmptyString],
      [openai |-> Str(<<"k">>), openrouter |-> Str(<<"k">>), chunkr |-> EmptyString],
      [openai |-> EmptyString, openrouter |-> Str(<<"k">>), chunkr |-> EmptyString] }

\* A variant of Settled that leaves the form busy.
SettledMutant(u, text) ==
    [u EXCEPT !.toast = text, !.pc = "idle", !.outcome = "failed"]

\* The error handler of toast.promise: setUploading(false), and the toast
\* of the upload turns into the text.
Settled(u, text) ==
    [u EXCEPT !.uploading = FALSE, !.toast = text, !.pc = "idle",
              !.outcome = "failed"]

\* handleSave of ApiKeyConfig
SaveKeys ==
    /\ homeOpen
    /\ Len(notices) < MaxNotices
    /\ \E form \in KeyForms :
         localStorage' = [openai_api_key |-> form.openai,
                          openrouter_api_key |-> form.openrouter,
                          chunkr_api_key |-> form.chunkr]
    /\ notices' = Append(notices, SavedText)
    /\ UNCHANGED <<chatVars, storeVars, outsideSubmit, upload, homeOpen>>

\* A file is chosen, a valid URL is typed, or the form is emptied.
ChooseDocument ==
    /\ homeOpen
    /\ ~upload.uploading
    /\ \E form \in {"none", "file", "url"} :
         /\ form # upload.form
         /\ upload' = [upload EXCEPT !.form = form, !.outcome = "none"]
    /\ UNCHANGED <<chatVars, storeVars, outsideSubmit, localStorage, notices,
                   homeOpen>>

\* handleSubmit of Upload, up to its call of fetch.
HandleSubmit ==
    /\ homeOpen
    /\ ~upload.uploading
    /\ IF upload.form = "none"
       THEN UNCHANGED <<upload, notices>>
       ELSE IF ~ValidateApiKeys(localStorage).isValid
       THEN /\ Len(notices) < MaxNotices
            /\ notices' =
                  Append(notices,
                         MissingText(ValidateApiKeys(localStorage).missingKeys))
            /\ upload' = [upload EXCEPT !.outcome = "refused"]
       ELSE /\ upload' = [upload EXCEPT !.uploading = TRUE,
                                        !.pc = "posting",
                                        !.toast = LoadingText,
                                        !.outcome = "posted",
                                        !.request = upload.form]
            /\ UNCHANGED notices
    /\ UNCHANGED <<chatVars, storeVars, outsideSubmit, localStorage, homeOpen>>

\* fetch rejects, or answers with a status that is not ok.
UploadFails ==
    /\ upload.pc = "posting"
    /\ upload' = Settled(upload, FailedText)
    /\ UNCHANGED <<chatVars, storeVars, outsideSubmit, localStorage, notices,
                   homeOpen>>

\* The upload is answered with ok: the form is cleared and the toast links
\* to the chat page of the task.
UploadSucceeds ==
    /\ upload.pc = "posting"
    /\ upload' = [upload EXCEPT !.uploading = FALSE, !.pc = "idle",
                                !.form = "none", !.toast = ProcessedText,
                                !.outcome = "done"]
    /\ UNCHANGED <<chatVars, storeVars, outsideSubmit, localStorage, notices,
                   homeOpen>>

\* The chat page of a task is opened in place of the home page: Upload is
\* gone with its state and its toasts, localStorage stays.
OpenChat ==
    /\ homeOpen
    /\ homeOpen' = FALSE
    /\ upload' = NoUpload
    /\ notices' = <<>>
    /\ UNCHANGED <<chatVars, storeVars, outsideSubmit, localStorage>>

\* The home page, then the chat page, in one tab.
NextSubmit ==
    \/ SaveKeys
    \/ ChooseDocument
    \/ HandleSubmit
    \/ UploadFails
    \/ UploadSucceeds
    \/ OpenChat
    \/ ~homeOpen /\ TypeInput
    \/ ~homeOpen /\ SendMessage
    \/ ~homeOpen /\ FetchFails
    \/ ~homeOpen /\ NoReader
    \/ ~homeOpen /\ StartStream
    \/ ~homeOpen /\ ReadChunk
    \/ ~homeOpen /\ ReadDone
    \/ ~homeOpen /\ ReadFails

SpecSubmit == Init /\ [][NextSubmit]_vars

\* C17: no upload request and no generation request is issued while one of
\* the three keys is absent.
NoRequestWithoutKeys ==
    [][((upload'.pc = "posting" /\ upload.pc # "posting")
        \/ (pc' = "fetching" /\ pc # "fetching"))
       => ValidateApiKeys(localStorage).isValid]_vars

\* C18: a failed upload and a failed generation request each leave a
\* notification and a view that is not busy: after a failed upload the form
\* is enabled again and still holds the document; after a failed send the
\* view is not loading, shows no streaming text and no streaming tool call,
\* and has no assistant message.
FailureRestoresView ==
    /\ upload.outcome = "failed" =>
          /\ ~upload.uploading
          /\ upload.toast = FailedText
          /\ upload.form = upload.request
    /\ (pc = "settled" /\ errors # <<>>) =>
          /\ toasts # <<>>
          /\ ~isLoading
          /\ streamingText = EmptyString
          /\ streamingToolCalls = EmptyArray
          /\ \A i \in 1..Len(messages) : messages[i].role # "assistant"

\* In the chat page opened after the home page, a send failed on a read
\* after its stream had published a text.
SendFailedMidStream ==
    /\ ~homeOpen
    /\ pc = "settled"
    /\ errors = <<"read failed">>
    /\ result # EmptyString

(***************************************************************************)
(* The mutators of the global store, called by any component               *)
(***************************************************************************)
\* The state of the store.
Store ==
    [hoveredChunkId |-> hoveredChunkId, metadata |-> metadata,
     showAllBboxes |-> showAllBboxes]

\* set(partial) of the store: the state with the fields of partial put
\* over its own.
Set(state, partial) ==
    [k \in DOMAIN state |->
        IF k \in DOMAIN partial THEN partial[k] ELSE state[k]]

\* The store takes the state next.
StoreTakes(next) ==
    /\ hoveredChunkId' = next.hoveredChunkId
    /\ metadata' = next.metadata
    /\ showAllBboxes' = next.showAllBboxes

\* What the components pass to the mutators.
HoverArguments ==
    {Str(<<"s1">>), Str(<<"s3">>), Null, EmptyString, Undefined}
MetadataArguments ==
    { EmptyMetadata,
      [citations |-> Arr(<<Str(<<"s1">>)>>), images |-> EmptyArray],
      [citations |-> Arr(<<Str(<<"s3">>), Str(<<"s1">>)>>),
       images |-> Arr(<<Str(<<"j">>)>>)] }

\* The rest of the chat view, which no mutator of the store writes.
chatRest == <<messages, inputMessage, isLoading, streamingText,
              streamingToolCalls, pc, result, responseImages,
              accumulatedContent, toolCalls, toasts, errors, warnings, server,
              log>>
outsideStore == <<chatRest, citationVars, boxVars, viewerVars, submitVars,
                  wire>>

\* setHoveredChunkId(id)
WriteHovered ==
    /\ \E id \in HoverArguments :
         /\ StoreTakes(Set(Store, [hoveredChunkId |-> SetHoveredChunkId(id)]))
         /\ written' = [written EXCEPT !.last = "setHoveredChunkId",
                                       !.id = id, !.before = Store]
    /\ UNCHANGED outsideStore

\* setMetadata(metadata)
WriteMetadata ==
    /\ \E md \in MetadataArguments :
         /\ StoreTakes(Set(Store, [metadata |-> md]))
         /\ written' = [written EXCEPT !.last = "setMetadata",
                                       !.metadata = md, !.before = Store]
    /\ UNCHANGED outsideStore

\* setShowAllBboxes(showAll)
WriteShowAll ==
    /\ \E showAll \in BOOLEAN :
         /\ StoreTakes(Set(Store, [showAllBboxes |-> showAll]))
         /\ written' = [written EXCEPT !.last = "setShowAllBboxes",
                                       !.showAll = showAll, !.before = Store]
    /\ UNCHANGED outsideStore

NextStore ==
    \/ WriteHovered
    \/ WriteMetadata
    \/ WriteShowAll

\* The store under the calls of its three mutators, in any order.
SpecStore == Init /\ [][NextStore]_vars

\* C25: each field of the store holds what the last call of its mutator was
\* given, the hovered id being null when that was falsy; and the call of a
\* mutator left the other two fields as it found them.
MutatorsWriteOwnField ==
    /\ hoveredChunkId = (IF Truthy(written.id) THEN written.id ELSE Null)
    /\ metadata = written.metadata
    /\ showAllBboxes = written.showAll
    /\ written.last = "setHoveredChunkId" =>
          /\ metadata = written.before.metadata
          /\ showAllBboxes = written.before.showAllBboxes
    /\ written.last = "setMetadata" =>
          /\ hoveredChunkId = written.before.hoveredChunkId
          /\ showAllBboxes = written.before.showAllBboxes
    /\ written.last = "setShowAllBboxes" =>
          /\ hoveredChunkId = written.before.hoveredChunkId
          /\ metadata = written.before.metadata

\* setHoveredChunkId('') has cleared the hovered id of a store that held a
\* citation list and the show-all flag.
EmptyIdClearedHover ==
    /\ written.last = "setHoveredChunkId"
    /\ written.id = EmptyString
    /\ written.before.hoveredChunkId = Str(<<"s1">>)
    /\ hoveredChunkId = Null
    /\ metadata.citations = Arr(<<Str(<<"s3">>), Str(<<"s1">>)>>)
    /\ showAllBboxes

(***************************************************************************)
(* A stream whose frames the network may deliver in two reads              *)
(***************************************************************************)
\* The frames of a stream that may come in two reads.
MaxSplits == 1

\* What the decoder holds and shows in state st.
Holdings(st) ==
    [accumulatedContent |-> st.accumulatedContent, result |-> st.result,
     responseImages |-> st.responseImages, toolCalls |-> st.toolCalls,
     streamingText |-> st.streamingText,
     streamingToolCalls |-> st.streamingToolCalls,
     metadata |-> st.metadata]

\* The state of the read loop in which the decoder holds and shows d.
Holding(d) ==
    [Current EXCEPT !.accumulatedContent = d.accumulatedContent,
                    !.result = d.result,
                    !.responseImages = d.responseImages,
                    !.toolCalls = d.toolCalls,
                    !.streamingText = d.streamingText,
                    !.streamingToolCalls = d.streamingToolCalls,
                    !.metadata = d.metadata,
                    !.before = d.metadata]

\* The frames the server of this stream sends: text and tool calls.
SplitCommands(srv) == {c \in Commands(srv) : c.k \in {"content", "tool"}}

outsideWire == <<storeVars, citationVars, boxVars, viewerVars, submitVars,
                 writeVars>>

\* reader.read() resolves with a chunk that is one frame and its line feed.
ReadWhole ==
    /\ pc = "streaming"
    /\ wire.rest = <<>>
    /\ \E c \in SplitCommands(server) :
         /\ Deliver(ProcessChunk(Current, ChunkOf(server, c, NoCommand)),
                    After(server, c))
         /\ wire' = [wire EXCEPT !.whole =
                        Holdings(ProcessChunk(Holding(wire.whole),
                                              ChunkOf(server, c, NoCommand)))]
    /\ UNCHANGED <<messages, inputMessage, isLoading, pc, toasts, errors>>
    /\ UNCHANGED outsideWire

\* reader.read() resolves with the first k characters of a frame that the
\* server has sent; the rest of the frame and its line feed are to follow.
ReadPart ==
    /\ pc = "streaming"
    /\ wire.rest = <<>>
    /\ wire.splits < MaxSplits
    /\ \E c \in SplitCommands(server) :
         \E k \in 1..(Len(ChunkOf(server, c, NoCommand)) - 1) :
           /\ Deliver(ProcessChunk(Current,
                                   SubSeq(ChunkOf(server, c, NoCommand), 1, k)),
                      After(server, c))
           /\ wire' =
                 [rest |-> SubSeq(ChunkOf(server, c, NoCommand), k + 1,
                                  Len(ChunkOf(server, c, NoCommand))),
                  splits |-> wire.splits + 1,
                  whole |-> Holdings(ProcessChunk(Holding(wire.whole),
                                                  ChunkOf(server, c, NoCommand)))]
    /\ UNCHANGED <<messages, inputMessage, isLoading, pc, toasts, errors>>
    /\ UNCHANGED outsideWire

\* reader.read() resolves with the rest of the frame.
ReadRest ==
    /\ pc = "streaming"
    /\ wire.rest # <<>>
    /\ Deliver(ProcessChunk(Current, wire.rest), server)
    /\ wire' = [wire EXCEPT !.rest = <<>>]
    /\ UNCHANGED <<messages, inputMessage, isLoading, pc, toasts, errors>>
    /\ UNCHANGED outsideWire

NextSplit ==
    \/ TypeInput
    \/ SendMessage
    \/ StartStream
    \/ ReadWhole
    \/ ReadPart
    \/ ReadRest
    \/ wire.rest = <<>> /\ ReadDone

\* One send whose stream comes frame by frame, a frame in one read or in
\* two.
SpecSplit == Init /\ [][NextSplit]_vars

\* C26: once every frame sent has been read, the decoder holds and shows
\* what it would had each frame come in one read: the same buffer, text,
\* images, tool calls and metadata while it streams, and the same text,
\* images and tool calls returned when it has ended.
SplitReadsDecodeAlike ==
    wire.rest = <<>> =>
        IF pc = "streaming" THEN Holdings(Current) = wire.whole
        ELSE /\ result = wire.whole.result
             /\ responseImages = wire.whole.responseImages
             /\ toolCalls = wire.whole.toolCalls

====
